---- MODULE Spec2Model ----
(***************************************************************************)
(* A model of the web client's telemetry pipeline:                         *)
(*   - the Task Tracker     (CommandService + the task slice of hubStore)  *)
(*   - the Connection Manager (WebSocketService)                           *)
(*   - the Telemetry Store  (telemetryStore.processTelemetry)              *)
(*   - the chart view       (LiveTelemetry merge / separate)               *)
(* Each component has its own next-state relation and specification over   *)
(* the one set of variables; the variables of the other components stay    *)
(* as Init left them.                                                      *)
(***************************************************************************)
EXTENDS Integers, Sequences, FiniteSets, TLC

VARIABLES
    \* ---- Task Tracker
    tasks,          \* hubStore.tasks: sequence of Task records
    inflight,       \* executeCommand calls suspended at their await: sequence of [hub, port]
    taskTimers,     \* outstanding setTimeout callbacks of scheduleTaskTimeout: sequence of task ids
    nextTaskId,     \* the id the backend gives to the next task it accepts
    cmdResult,      \* the CommandResult an executeCommand call resolved with in the last step
    forced,         \* per task id: how many times a timeout callback forced it to failed
    echoes,         \* number of task_status messages delivered so far
    lastEcho,       \* the task_status message applied last with no other change of the tasks since
    swept           \* what the last step did if it was cleanupCompletedTasks: how many tasks it removed and kept

taskVars == <<tasks, inflight, taskTimers, nextTaskId, cmdResult, forced, echoes, lastEcho, swept>>

VARIABLES
    \* ---- Connection Manager
    svc,            \* the WebSocketService object: its private fields, its sockets and timers
    authToken,      \* localStorage 'auth_token'
    shutdown,       \* disconnect() was called and no caller has called connect or subscribe since
    queued,         \* the pairs asked for while the socket was not open and not yet flushed or withdrawn
    repeated,       \* some pair was asked for again while it was queued, since the last flush
    retry,          \* the retries scheduled since the last open event: how many, and the last one's delay
    withdrawn,      \* the pairs unsubscribe took out of the queue, not asked for again and no socket opened since
    gaveUp          \* a close found the attempts used up, and no caller has connected and no socket has opened since

connVars == <<svc, authToken, shutdown, queued, repeated, retry, withdrawn, gaveUp>>

VARIABLES
    \* ---- Telemetry Store
    devices,        \* Map of device key to DeviceTelemetryState: <<>> when the key is absent
    detectedSensors \* Map of device key to the detected sensor's name

storeVars == <<devices, detectedSensors>>

VARIABLES
    \* ---- hubStore subscriptions and the LiveTelemetry page
    activeSubscriptions,    \* hubStore.activeSubscriptions
    chartOrder,             \* the page's chart keys, in display order
    mergedCharts,           \* Map of merged id to MergedChartData, in insertion order
    shiftPressed,
    lastSize,               \* allCharts.size as the chart-order effect last saw it
    mergeClock,             \* how many merging drops there have been
    groupsJoined,           \* a merged chart has been dropped on a merged chart
    timeWindow,             \* the page's selected time window
    customTimeRange,        \* null (<<>>) or <<[start, end]>>, in milliseconds
    showCustomTimeDialog

rangeVars == <<timeWindow, customTimeRange, showCustomTimeDialog>>

viewVars == <<activeSubscriptions, chartOrder, mergedCharts, shiftPressed, lastSize, mergeClock, groupsJoined, rangeVars>>

VARIABLES
    \* ---- Inbound messages
    messageHandlers,    \* WebSocketService.messageHandlers, in insertion order
    unsubscribers,      \* the handlers onMessage has returned an unsubscribe function for
    calls,              \* per handler: the messages the last message event called it with
    thrown,             \* the handlers that threw during the last message event
    inbound             \* what became of the last payloads received

msgVars == <<messageHandlers, unsubscribers, calls, thrown, inbound>>

VARIABLES
    \* ---- Calls observed from outside
    lastFrame,      \* the last telemetry payload handed to processTelemetry and what the parser made of it
    chartQuery,     \* the last getChartData call: its arguments and what it returned
    parserCall,     \* the last call of a sensor parser function: its arguments and what it returned
    lastEvent       \* the device_event message handled last, with no subscribe or unsubscribe by the user since

callVars == <<lastFrame, chartQuery, parserCall, lastEvent>>

VARIABLES
    now             \* Date.now(), in milliseconds

vars == <<taskVars, connVars, storeVars, viewVars, msgVars, callVars, now>>

----------------------------------------------------------------------------
(* Bounds and small input sets *)

\* Sockets alive at once, reconnect timers outstanding at once, pairs in one subscribe call
MaxSockets == 2
MaxTimers == 2
MaxBatch == 2

\* Clock steps taken, points kept in one series, lines in one frame, lines in a raw buffer
MaxTicks == 2
MaxPoints == 2
MaxLines == 1
MaxRawLines == 2

\* Message handlers
MaxHandlers == 2

\* Lines in one frame handed to the parser directly
MaxParseLines == 3

\* Mappings registered at once
MaxMappings == 3

\* Merging drops in one run
MaxMerges == 2

\* Merging drops in one run of the page with four devices
MaxGroupMerges == 3

\* Tasks the backend accepts, and task_status messages it sends, in one run
MaxTasks == 2
MaxEchoes == 1

\* task_status messages in one run of a single port's tasks
MaxUpdates == 2

Hubs == {"h1", "h2"}
Ports == {"p1", "p2"}

Undefined == "undefined"
NoStamp == -1

TaskStatuses == {"pending", "running", "completed", "failed"}
TimeoutError == "Command timeout - no response received"
InProgressError == "Command already in progress for this device"
RequestError == "request failed"

\* The task_status echoes the backend sends: status, result, error
TaskEchoes ==
    {<<"pending", Undefined, Undefined>>, <<"running", Undefined, Undefined>>,
     <<"completed", "ok", Undefined>>, <<"failed", Undefined, "err">>}

\* The hub commands are issued to
CommandHubs == {"h1"}

\* cmdResult when the last step resolved no call (taskId 0 stands for the empty string)
NoResult == [success |-> FALSE, taskId |-> 0, error |-> "no call resolved"]

----------------------------------------------------------------------------
(* Sequence helpers *)

Range(s) == {s[i] : i \in 1..Len(s)}

RemoveAt(s, i) == [j \in 1..(Len(s) - 1) |-> IF j < i THEN s[j] ELSE s[j + 1]]

RECURSIVE FilterSeq(_, _)
FilterSeq(s, keep) ==
    IF s = <<>> THEN <<>>
    ELSE IF Head(s) \in keep THEN <<Head(s)>> \o FilterSeq(Tail(s), keep)
         ELSE FilterSeq(Tail(s), keep)

----------------------------------------------------------------------------
(* hubStore: the task slice *)

IsActive(task) == task.status \in {"pending", "running"}

\* A lookup that treats only pending tasks as in progress
getPendingTaskForPort(ts, portId) ==
    LET idx == {i \in 1..Len(ts) : ts[i].port_id = portId /\ ts[i].status = "pending"}
    IN IF idx = {} THEN <<>>
       ELSE <<ts[CHOOSE i \in idx : \A j \in idx : i <= j]>>

\* getActiveTaskForPort: the first task of the port that is pending or running,
\* as <<task>>, or <<>> for undefined
getActiveTaskForPort(ts, portId) ==
    LET idx == {i \in 1..Len(ts) : ts[i].port_id = portId /\ IsActive(ts[i])}
    IN IF idx = {} THEN <<>>
       ELSE <<ts[CHOOSE i \in idx : \A j \in idx : i <= j]>>

addTask(ts, task) == Append(ts, task)

\* An updateTaskStatus that stamps started_at and completed_at at every update
updateTaskStatusRestamp(ts, update, clock) ==
    [i \in 1..Len(ts) |->
        IF ts[i].task_id = update.task_id
        THEN [ts[i] EXCEPT
                !.status = update.status,
                !.result = IF update.result # Undefined THEN update.result ELSE @,
                !.error = IF update.error # Undefined THEN update.error ELSE @,
                !.started_at = IF update.status = "running" THEN clock ELSE @,
                !.completed_at = IF update.status \in {"completed", "failed"} THEN clock ELSE @]
        ELSE ts[i]]

\* updateTaskStatus: merge the update into every task with that id
updateTaskStatus(ts, update, clock) ==
    [i \in 1..Len(ts) |->
        IF ts[i].task_id = update.task_id
        THEN [ts[i] EXCEPT
                !.status = update.status,
                !.result = IF update.result # Undefined THEN update.result ELSE @,
                !.error = IF update.error # Undefined THEN update.error ELSE @,
                !.started_at =
                    IF update.status = "running" /\ @ = NoStamp THEN clock ELSE @,
                !.completed_at =
                    IF update.status \in {"completed", "failed"} /\ @ = NoStamp
                    THEN clock ELSE @]
        ELSE ts[i]]

removeTask(ts, taskId) ==
    FilterSeq(ts, {t \in Range(ts) : t.task_id # taskId})

\* A sweep that keeps only the pending tasks
cleanupAllButPending(ts) ==
    FilterSeq(ts, {t \in Range(ts) : t.status = "pending"})

cleanupCompletedTasks(ts) ==
    FilterSeq(ts, {t \in Range(ts) : t.status \notin {"completed", "failed"}})

----------------------------------------------------------------------------
(* CommandService *)

\* tasks.find((t) => t.task_id === taskId), as <<task>> or <<>>
FindTask(ts, taskId) ==
    LET idx == {i \in 1..Len(ts) : ts[i].task_id = taskId}
    IN IF idx = {} THEN <<>>
       ELSE <<ts[CHOOSE i \in idx : \A j \in idx : i <= j]>>

\* A timeout guard that does not look at the task's status
TimeoutAppliesToAnyStatus(ts, taskId) == FindTask(ts, taskId) # <<>>

\* The timeout callback's guard: the task is tracked and still pending or running
TimeoutApplies(ts, taskId) ==
    FindTask(ts, taskId) # <<>> /\ IsActive(FindTask(ts, taskId)[1])

\* scheduleTaskTimeout: one setTimeout per call
scheduleTaskTimeout(timers, taskId) == Append(timers, taskId)

\* executeCommand up to its await: the duplicate check, then the request is issued
ExecuteCommand(hub, port) ==
    LET existing == getActiveTaskForPort(tasks, port) IN
    /\ IF existing # <<>>
       THEN /\ cmdResult' = [success |-> FALSE, taskId |-> existing[1].task_id,
                             error |-> InProgressError]
            /\ UNCHANGED inflight
       ELSE /\ (nextTaskId - 1) + Len(inflight) < MaxTasks
            /\ inflight' = Append(inflight, [hub |-> hub, port |-> port])
            /\ cmdResult' = NoResult
    /\ swept' = <<>>
    /\ UNCHANGED <<tasks, taskTimers, nextTaskId, forced, echoes, lastEcho, connVars, storeVars, viewVars, msgVars, callVars, now>>

\* executeCommand after its await, the backend accepted: addTask, scheduleTaskTimeout
CommandAccepted(i, status) ==
    /\ i \in 1..Len(inflight)
    /\ tasks' = addTask(tasks,
            [task_id |-> nextTaskId, status |-> status,
             port_id |-> inflight[i].port, hub_id |-> inflight[i].hub,
             result |-> Undefined, error |-> Undefined,
             started_at |-> NoStamp, completed_at |-> NoStamp])
    /\ taskTimers' = scheduleTaskTimeout(taskTimers, nextTaskId)
    /\ cmdResult' = [success |-> TRUE, taskId |-> nextTaskId, error |-> Undefined]
    /\ nextTaskId' = nextTaskId + 1
    /\ inflight' = RemoveAt(inflight, i)
    /\ lastEcho' = <<>>
    /\ swept' = <<>>
    /\ UNCHANGED <<forced, echoes, connVars, storeVars, viewVars, msgVars, callVars, now>>

\* A catch branch reached after the task was already put in the list
CommandRejectedTracked(i) ==
    /\ i \in 1..Len(inflight)
    /\ tasks' = addTask(tasks,
            [task_id |-> nextTaskId, status |-> "pending",
             port_id |-> inflight[i].port, hub_id |-> inflight[i].hub,
             result |-> Undefined, error |-> Undefined,
             started_at |-> NoStamp, completed_at |-> NoStamp])
    /\ cmdResult' = [success |-> FALSE, taskId |-> 0, error |-> RequestError]
    /\ inflight' = RemoveAt(inflight, i)
    /\ swept' = <<>>
    /\ UNCHANGED <<taskTimers, nextTaskId, forced, echoes, lastEcho, connVars, storeVars, viewVars, msgVars, callVars, now>>

\* executeCommand after its await, the request was rejected: the catch branch
CommandRejected(i) ==
    /\ i \in 1..Len(inflight)
    /\ cmdResult' = [success |-> FALSE, taskId |-> 0, error |-> RequestError]
    /\ inflight' = RemoveAt(inflight, i)
    /\ swept' = <<>>
    /\ UNCHANGED <<tasks, taskTimers, nextTaskId, forced, echoes, lastEcho, connVars, storeVars, viewVars, msgVars, callVars, now>>

\* The callback scheduleTaskTimeout registered, firing
TaskTimeout(i) ==
    /\ i \in 1..Len(taskTimers)
    /\ LET taskId == taskTimers[i] IN
       IF TimeoutApplies(tasks, taskId)
       THEN /\ tasks' = updateTaskStatus(tasks,
                    [task_id |-> taskId, status |-> "failed",
                     result |-> Undefined, error |-> TimeoutError], now)
            /\ forced' = [forced EXCEPT ![taskId] = @ + 1]
       ELSE UNCHANGED <<tasks, forced>>
    /\ taskTimers' = RemoveAt(taskTimers, i)
    /\ cmdResult' = NoResult
    /\ lastEcho' = <<>>
    /\ swept' = <<>>
    /\ UNCHANGED <<inflight, nextTaskId, echoes, connVars, storeVars, viewVars, msgVars, callVars, now>>

\* MainLayout's handler on a task_status message, in a run of up to budget of them
Echo(taskId, echo, budget) ==
    /\ echoes < budget
    /\ echoes' = echoes + 1
    /\ lastEcho' = <<[task_id |-> taskId, echo |-> echo, at |-> now,
                      again |-> /\ lastEcho # <<>>
                                /\ lastEcho[1].task_id = taskId
                                /\ lastEcho[1].echo = echo
                                /\ lastEcho[1].at < now
                                /\ FindTask(tasks, taskId) # <<>>]>>
    /\ tasks' = updateTaskStatus(tasks,
            [task_id |-> taskId, status |-> echo[1],
             result |-> echo[2], error |-> echo[3]], now)
    /\ cmdResult' = NoResult
    /\ swept' = <<>>
    /\ UNCHANGED <<inflight, taskTimers, nextTaskId, forced, connVars, storeVars, viewVars, msgVars, callVars, now>>

TaskStatusEcho(taskId, echo) == Echo(taskId, echo, MaxEchoes)

RemoveTask(taskId) ==
    /\ tasks' = removeTask(tasks, taskId)
    /\ cmdResult' = NoResult
    /\ lastEcho' = <<>>
    /\ swept' = <<>>
    /\ UNCHANGED <<inflight, taskTimers, nextTaskId, forced, echoes, connVars, storeVars, viewVars, msgVars, callVars, now>>

CleanupCompletedTasks ==
    /\ tasks' = cleanupCompletedTasks(tasks)
    /\ cmdResult' = NoResult
    /\ lastEcho' = <<>>
    /\ swept' = <<[removed |-> Len(tasks) - Len(tasks'), kept |-> Len(tasks')]>>
    /\ UNCHANGED <<inflight, taskTimers, nextTaskId, forced, echoes, connVars, storeVars, viewVars, msgVars, callVars, now>>

----------------------------------------------------------------------------
(* WebSocketService *)

maxReconnectAttempts == 10
baseReconnectDelay == 1000
maxReconnectDelay == 30000

NoToken == "null"
Tokens == {"tok"}

\* DeviceSubscription values
DevicePairs ==
    {[hubId |-> "h1", portId |-> "p1"], [hubId |-> "h2", portId |-> "p1"]}

RECURSIVE SeqsUpTo(_, _)
SeqsUpTo(S, n) ==
    IF n = 0 THEN {<<>>}
    ELSE LET shorter == SeqsUpTo(S, n - 1)
         IN shorter \cup {Append(q, x) : q \in {r \in shorter : Len(r) = n - 1}, x \in S}

\* The devices that can be subscribed and charted
ChartPairs == DevicePairs \cup {[hubId |-> "h1", portId |-> "p2"]}
MaxCharts == Cardinality(ChartPairs)

\* The devices of the page on which two merged groups can be made
GroupPairs == [hubId : {"h1", "h2"}, portId : {"p1", "p2"}]

\* The arguments of a subscribe or unsubscribe call: one pair or a batch
Batches == SeqsUpTo(DevicePairs, MaxBatch) \ {<<>>}

Min(a, b) == IF a <= b THEN a ELSE b

RECURSIVE Pow2(_)
Pow2(n) == IF n = 0 THEN 1 ELSE 2 * Pow2(n - 1)

SocketIds == 1..MaxSockets
TimerIds == 1..MaxTimers

\* The service as constructed
NewService ==
    [ws |-> 0,                                  \* 0 is null, else the socket's id
     sock |-> [s \in SocketIds |-> "free"],      \* readyState of every socket created and not yet closed
     reconnectTimeout |-> 0,                    \* 0 is null, else a timer id
     timers |-> [t \in TimerIds |-> 0],          \* per timer id: its delay, 0 when not outstanding
     reconnectAttempts |-> 0,
     isIntentionallyClosed |-> FALSE,
     token |-> NoToken,
     pendingSubscriptions |-> <<>>,
     sent |-> <<>>,                             \* what the last step handed to WebSocket.send
     exhausted |-> FALSE]                       \* a socket or timer was needed beyond the bounds

IsOpen(c) == c.ws # 0 /\ c.sock[c.ws] = "open"

ReconnectDelayUncapped(attempts) == baseReconnectDelay * Pow2(attempts)

\* Math.min(baseReconnectDelay * Math.pow(2, attempts), 30000)
ReconnectDelay(attempts) == Min(baseReconnectDelay * Pow2(attempts), maxReconnectDelay)

scheduleReconnect(c) ==
    IF c.isIntentionallyClosed THEN c
    ELSE IF c.reconnectAttempts >= maxReconnectAttempts THEN c
    ELSE LET free == {t \in TimerIds : c.timers[t] = 0 /\ t # c.reconnectTimeout} IN
         IF free = {} THEN [c EXCEPT !.exhausted = TRUE]
         ELSE LET id == CHOOSE t \in free : \A u \in free : t <= u IN
              [c EXCEPT !.reconnectAttempts = @ + 1,
                        !.reconnectTimeout = id,
                        !.timers[id] = ReconnectDelay(c.reconnectAttempts)]

\* connect(token); constructed is whether new WebSocket(url) returned or threw
connect(c, tok, constructed) ==
    IF IsOpen(c) THEN c
    ELSE LET c1 == [c EXCEPT !.token = tok, !.isIntentionallyClosed = FALSE]
             free == {s \in SocketIds : c.sock[s] = "free"}
         IN IF ~constructed THEN scheduleReconnect(c1)
            ELSE IF free = {} THEN [c1 EXCEPT !.exhausted = TRUE]
            ELSE LET id == CHOOSE s \in free : \A u \in free : s <= u IN
                 [c1 EXCEPT !.ws = id, !.sock[id] = "connecting"]

\* A disconnect that also starts the attempts afresh
disconnectResetsAttempts(c) ==
    LET c1 == [c EXCEPT !.isIntentionallyClosed = TRUE, !.reconnectAttempts = 0]
        c2 == IF c1.reconnectTimeout # 0
              THEN [c1 EXCEPT !.timers[c1.reconnectTimeout] = 0, !.reconnectTimeout = 0]
              ELSE c1
    IN IF c2.ws # 0 THEN [c2 EXCEPT !.sock[c2.ws] = "closing", !.ws = 0] ELSE c2

disconnect(c) ==
    LET c1 == [c EXCEPT !.isIntentionallyClosed = TRUE]
        c2 == IF c1.reconnectTimeout # 0
              THEN [c1 EXCEPT !.timers[c1.reconnectTimeout] = 0, !.reconnectTimeout = 0]
              ELSE c1
    IN IF c2.ws # 0 THEN [c2 EXCEPT !.sock[c2.ws] = "closing", !.ws = 0] ELSE c2

send(c, message) ==
    IF IsOpen(c)
    THEN [c EXCEPT !.sent = Append(@, [sock |-> c.ws, type |-> message.type,
                                       subscriptions |-> message.subscriptions])]
    ELSE c

EnqueueAll(queue, subs) == queue \o subs

\* The dedupe loop of subscribe: push every pair the queue does not hold yet
RECURSIVE Enqueue(_, _)
Enqueue(queue, subs) ==
    IF subs = <<>> THEN queue
    ELSE IF \E i \in 1..Len(queue) :
                queue[i].hubId = Head(subs).hubId /\ queue[i].portId = Head(subs).portId
         THEN Enqueue(queue, Tail(subs))
         ELSE Enqueue(Append(queue, Head(subs)), Tail(subs))

\* subscribe(subscriptions); stored is localStorage's token
subscribe(c, subs, stored, constructed) ==
    IF ~IsOpen(c)
    THEN LET c1 == [c EXCEPT !.pendingSubscriptions = Enqueue(@, subs)]
             tok == IF c.token # NoToken THEN c.token ELSE stored
         IN IF tok # NoToken THEN connect(c1, tok, constructed) ELSE c1
    ELSE send(c, [type |-> "subscribe", subscriptions |-> subs])

\* A filter that stops at the first intent it removes
RECURSIVE DequeueFirst(_, _)
DequeueFirst(queue, subs) ==
    IF queue = <<>> THEN <<>>
    ELSE IF \E i \in 1..Len(subs) :
                subs[i].hubId = Head(queue).hubId /\ subs[i].portId = Head(queue).portId
         THEN Tail(queue)
         ELSE <<Head(queue)>> \o DequeueFirst(Tail(queue), subs)

\* pendingSubscriptions.filter: keep what matches no pair of subs
RECURSIVE Dequeue(_, _)
Dequeue(queue, subs) ==
    IF queue = <<>> THEN <<>>
    ELSE IF \E i \in 1..Len(subs) :
                subs[i].hubId = Head(queue).hubId /\ subs[i].portId = Head(queue).portId
         THEN Dequeue(Tail(queue), subs)
         ELSE <<Head(queue)>> \o Dequeue(Tail(queue), subs)

unsubscribe(c, subs) ==
    IF ~IsOpen(c)
    THEN [c EXCEPT !.pendingSubscriptions = Dequeue(@, subs)]
    ELSE send(c, [type |-> "unsubscribe", subscriptions |-> subs])

\* ws.onopen of socket s
onopen(c, s) ==
    LET c1 == [c EXCEPT !.sock[s] = "open", !.reconnectAttempts = 0] IN
    IF Len(c1.pendingSubscriptions) > 0
    THEN send([c1 EXCEPT !.pendingSubscriptions = <<>>],
              [type |-> "subscribe", subscriptions |-> c1.pendingSubscriptions])
    ELSE c1

\* ws.onclose of socket s
onclose(c, s) ==
    LET c1 == [c EXCEPT !.sock[s] = "free", !.ws = 0] IN
    IF ~c1.isIntentionallyClosed THEN scheduleReconnect(c1) ELSE c1

\* The callback scheduleReconnect registered, firing as timer t
onReconnectTimer(c, t, constructed) ==
    LET c1 == [c EXCEPT !.timers[t] = 0] IN
    IF c1.token # NoToken THEN connect(c1, c1.token, constructed) ELSE c1

\* A handler starts with nothing handed to the socket yet
Begin(c) == [c EXCEPT !.sent = <<>>]

\* The retries of the current run after a step from c to d
Retried(c, d) ==
    LET new == {t \in TimerIds : c.timers[t] = 0 /\ d.timers[t] # 0} IN
    IF new = {} THEN retry
    ELSE [n |-> retry.n + 1, delay |-> d.timers[CHOOSE t \in new : TRUE]]

\* authStore.login / checkAuth: store the token, then connect
Login(tok, constructed) ==
    LET d == connect(Begin(svc), tok, constructed) IN
    /\ ~d.exhausted
    /\ svc' = d
    /\ authToken' = tok
    /\ shutdown' = FALSE
    /\ retry' = Retried(svc, d)
    /\ gaveUp' = FALSE
    /\ UNCHANGED <<queued, repeated, withdrawn, taskVars, storeVars, viewVars, msgVars, callVars, now>>

\* authStore.logout: drop the token, then disconnect
Logout ==
    /\ svc' = disconnect(Begin(svc))
    /\ authToken' = NoToken
    /\ shutdown' = TRUE
    /\ UNCHANGED <<queued, repeated, retry, withdrawn, gaveUp, taskVars, storeVars, viewVars, msgVars, callVars, now>>

\* DeviceManager: webSocketService.subscribe
Subscribe(subs, constructed) ==
    LET d == subscribe(Begin(svc), subs, authToken, constructed) IN
    /\ ~d.exhausted
    /\ svc' = d
    /\ shutdown' = FALSE
    /\ queued' = IF IsOpen(svc) THEN queued ELSE queued \cup Range(subs)
    /\ repeated' = IF IsOpen(svc) THEN repeated
                   ELSE repeated \/ Cardinality(queued \cup Range(subs)) < Cardinality(queued) + Len(subs)
    /\ retry' = Retried(svc, d)
    /\ gaveUp' = (gaveUp /\ (IsOpen(svc) \/ (svc.token = NoToken /\ authToken = NoToken)))
    /\ withdrawn' = IF IsOpen(svc) THEN withdrawn ELSE withdrawn \ Range(subs)
    /\ UNCHANGED <<authToken, taskVars, storeVars, viewVars, msgVars, callVars, now>>

\* DeviceManager / MainLayout: webSocketService.unsubscribe
Unsubscribe(subs) ==
    /\ svc' = unsubscribe(Begin(svc), subs)
    /\ queued' = IF IsOpen(svc) THEN queued ELSE queued \ Range(subs)
    /\ withdrawn' = IF IsOpen(svc) THEN withdrawn
                    ELSE withdrawn \cup (Range(subs) \cap Range(svc.pendingSubscriptions))
    /\ UNCHANGED <<authToken, shutdown, repeated, retry, gaveUp, taskVars, storeVars, viewVars, msgVars, callVars, now>>

\* The browser reports socket s open
SocketOpen(s) ==
    /\ svc.sock[s] = "connecting"
    /\ svc' = onopen(Begin(svc), s)
    /\ queued' = {}
    /\ repeated' = FALSE
    /\ retry' = [n |-> 0, delay |-> 0]
    /\ gaveUp' = FALSE
    /\ withdrawn' = {}
    /\ UNCHANGED <<authToken, shutdown, taskVars, storeVars, viewVars, msgVars, callVars, now>>

\* The browser reports socket s closed (it failed, the server closed it, or close() completed)
SocketClose(s) ==
    LET d == onclose(Begin(svc), s) IN
    /\ svc.sock[s] # "free"
    /\ ~d.exhausted
    /\ svc' = d
    /\ retry' = Retried(svc, d)
    /\ gaveUp' = (gaveUp \/ (~svc.isIntentionallyClosed /\ svc.reconnectAttempts >= maxReconnectAttempts))
    /\ UNCHANGED <<authToken, shutdown, queued, repeated, withdrawn, taskVars, storeVars, viewVars, msgVars, callVars, now>>

\* The browser reports an error on socket s: ws.onerror only logs
SocketError(s) ==
    /\ svc.sock[s] \in {"connecting", "open"}
    /\ svc' = Begin(svc)
    /\ UNCHANGED <<authToken, shutdown, queued, repeated, retry, withdrawn, gaveUp,
                   taskVars, storeVars, viewVars, msgVars, callVars, now>>

\* Reconnect timer t fires
ReconnectTimer(t, constructed) ==
    LET c1 == [Begin(svc) EXCEPT !.timers[t] = 0]
        d == onReconnectTimer(Begin(svc), t, constructed)
    IN /\ svc.timers[t] # 0
       /\ ~d.exhausted
       /\ svc' = d
       /\ retry' = Retried(c1, d)
       /\ UNCHANGED <<authToken, shutdown, queued, repeated, withdrawn, gaveUp, taskVars, storeVars, viewVars, msgVars, callVars, now>>

NextConn ==
    \/ \E tok \in Tokens, constructed \in BOOLEAN : Login(tok, constructed)
    \/ Logout
    \/ \E s \in SocketIds : SocketError(s)
    \/ \E subs \in Batches, constructed \in BOOLEAN : Subscribe(subs, constructed)
    \/ \E subs \in Batches : Unsubscribe(subs)
    \/ \E s \in SocketIds : SocketOpen(s)
    \/ \E s \in SocketIds : SocketClose(s)
    \/ \E t \in TimerIds, constructed \in BOOLEAN : ReconnectTimer(t, constructed)

\* The pending queue while sockets open, close and are retried: every
\* new WebSocket(url) returns
NextQueue ==
    \/ \E tok \in Tokens : Login(tok, TRUE)
    \/ \E subs \in Batches : Subscribe(subs, TRUE)
    \/ \E subs \in Batches : Unsubscribe(subs)
    \/ \E s \in SocketIds : SocketOpen(s)
    \/ \E s \in SocketIds : SocketClose(s)
    \/ \E t \in TimerIds : ReconnectTimer(t, TRUE)

----------------------------------------------------------------------------
(* Sensor parser and Telemetry Store.  A frame is taken as the lines its
   payload decodes to; a line is taken as what the mappings' patterns make of
   it: which mappings match it and which fields capture a number.  The hex
   dump, units and colours are carried along unchanged and left out. *)

ONE_HOUR_MS == 60 * 60 * 1000
MaxTerminalLines == 1000

\* Date.now() is read in steps of half an hour
ClockStep == 30 * 60 * 1000

\* sensorMappings, in registration order
SensorMappings ==
    <<[id |-> "s1", name |-> "Climate", fields |-> <<"temp", "hum">>],
      [id |-> "s2", name |-> "Power", fields |-> <<"volt">>]>>

\* Decoded lines: noise, a climate line with one or both captures numeric, a power line
Lines ==
    {[matches |-> {}, numeric |-> {}],
     [matches |-> {"s1"}, numeric |-> {"temp"}],
     [matches |-> {"s1"}, numeric |-> {"temp", "hum"}],
     [matches |-> {"s2"}, numeric |-> {"volt"}]}

Frames == SeqsUpTo(Lines, MaxLines)

DeviceKeys == {<<d.hubId, d.portId>> : d \in GroupPairs}

deviceKey(hubId, portId) == <<hubId, portId>>

pruneOldDataPoints(data, maxAge, clock) ==
    SelectSeq(data, LAMBDA point : clock - point.timestamp < maxAge)

detectSensorType(line) ==
    LET hits == {i \in 1..Len(SensorMappings) : SensorMappings[i].id \in line.matches} IN
    IF hits = {} THEN <<>>
    ELSE <<SensorMappings[CHOOSE i \in hits : \A j \in hits : i <= j]>>

parseSensorLine(line, sensor) ==
    IF sensor.id \notin line.matches THEN <<>>
    ELSE LET validFields == SelectSeq(sensor.fields, LAMBDA f : f \in line.numeric) IN
         IF Len(validFields) = 0 THEN <<>>
         ELSE <<[sensorId |-> sensor.id, sensorName |-> sensor.name,
                 fields |-> [i \in 1..Len(validFields) |-> [name |-> validFields[i], value |-> 1]]]>>

\* A loop that detects the mapping of every line by itself
RECURSIVE ParseLinesPerLine(_, _, _)
ParseLinesPerLine(lines, parsed, detectedSensor) ==
    IF lines = <<>> THEN [parsed |-> parsed, detectedSensor |-> detectedSensor]
    ELSE LET sensor == IF detectedSensor = <<>> THEN detectSensorType(Head(lines))
                       ELSE detectedSensor
             out == IF sensor = <<>> THEN parsed
                    ELSE parsed \o parseSensorLine(Head(lines), sensor[1])
             rest == ParseLinesPerLine(Tail(lines), out, detectedSensor)
         IN [parsed |-> rest.parsed,
             detectedSensor |-> IF rest.detectedSensor # <<>> THEN rest.detectedSensor ELSE sensor]

\* The loop of parseTelemetryData over the decoded lines, first to last: one
\* line is one pass of the loop body, and a longer run is its first half
\* followed by its second half
RECURSIVE ParseLines(_, _, _)
ParseLines(lines, parsed, detectedSensor) ==
    IF lines = <<>> THEN [parsed |-> parsed, detectedSensor |-> detectedSensor]
    ELSE IF Len(lines) = 1
    THEN LET sensor == IF detectedSensor = <<>> THEN detectSensorType(Head(lines))
                       ELSE detectedSensor
         IN IF sensor = <<>> THEN [parsed |-> parsed, detectedSensor |-> sensor]
            ELSE [parsed |-> parsed \o parseSensorLine(Head(lines), sensor[1]),
                  detectedSensor |-> sensor]
    ELSE LET mid == Len(lines) \div 2
             first == ParseLines(SubSeq(lines, 1, mid), parsed, detectedSensor)
             rest == SubSeq(lines, mid + 1, Len(lines))
         IN IF first.detectedSensor = <<>> THEN ParseLines(rest, first.parsed, <<>>)
            ELSE ParseLines(rest, first.parsed, first.detectedSensor)

\* A parse that runs detection afresh whatever mapping it is handed
parseTelemetryDataRedetect(lines, previousSensor) == ParseLines(lines, <<>>, <<>>)

parseTelemetryData(lines, previousSensor) == ParseLines(lines, <<>>, previousSensor)

\* A line of the decoded text that is empty or white space
BlankLine == [matches |-> {}, numeric |-> {}, blank |-> TRUE]

\* message.data: whether atob accepts it, and the lines of the text its bytes
\* spell: those of Lines, a blank one, and a climate line whose captures are
\* no numbers
Payloads64 ==
    [valid : BOOLEAN,
     text : SeqsUpTo(Lines \cup {BlankLine, [matches |-> {"s1"}, numeric |-> {}]}, MaxLines)]

\* A decode that has no catch: whatever lines the bytes spell
decodeTelemetryDataUnchecked(data) ==
    [lines |-> SelectSeq(data.text, LAMBDA line : line # BlankLine)]

\* decodeTelemetryData: the text's lines that are not blank; no lines when atob throws
decodeTelemetryData(data) ==
    IF data.valid
    THEN [lines |-> SelectSeq(data.text, LAMBDA line : line # BlankLine)]
    ELSE [lines |-> <<>>]

\* A push that prunes every series of the device
AddPointPruningAll(fields, fieldName, timestamp, clock) ==
    LET found == {i \in 1..Len(fields) : fields[i].fieldName = fieldName}
        withField == IF found = {} THEN Append(fields, [fieldName |-> fieldName, data |-> <<>>])
                     ELSE fields
        at == CHOOSE i \in 1..Len(withField) :
                  /\ withField[i].fieldName = fieldName
                  /\ \A j \in 1..Len(withField) : withField[j].fieldName = fieldName => i <= j
    IN [i \in 1..Len(withField) |->
            [withField[i] EXCEPT !.data =
                pruneOldDataPoints(IF i = at THEN Append(@, [timestamp |-> timestamp, value |-> 1])
                                   ELSE @, ONE_HOUR_MS, clock)]]

\* One field of one parsed line: find or create its series, push the point, prune that series
AddPoint(fields, fieldName, timestamp, clock) ==
    LET found == {i \in 1..Len(fields) : fields[i].fieldName = fieldName}
        withField == IF found = {} THEN Append(fields, [fieldName |-> fieldName, data |-> <<>>])
                     ELSE fields
        at == CHOOSE i \in 1..Len(withField) :
                  /\ withField[i].fieldName = fieldName
                  /\ \A j \in 1..Len(withField) : withField[j].fieldName = fieldName => i <= j
    IN [withField EXCEPT ![at].data =
            pruneOldDataPoints(Append(@, [timestamp |-> timestamp, value |-> 1]), ONE_HOUR_MS, clock)]

RECURSIVE AddFields(_, _, _, _)
AddFields(fields, parsedFields, timestamp, clock) ==
    IF parsedFields = <<>> THEN fields
    ELSE AddFields(AddPoint(fields, Head(parsedFields).name, timestamp, clock),
                   Tail(parsedFields), timestamp, clock)

RECURSIVE AddParsed(_, _, _, _)
AddParsed(fields, parsed, timestamp, clock) ==
    IF parsed = <<>> THEN fields
    ELSE AddParsed(AddFields(fields, Head(parsed).fields, timestamp, clock),
                   Tail(parsed), timestamp, clock)

\* Lines of the terminal text built from n decoded lines: the empty text is one line
TextLines(n) == IF n = 0 THEN 1 ELSE n

\* The DeviceTelemetryState processTelemetry stores for the message's key
processTelemetry(existing, message, clock) ==
    LET key == deviceKey(message.hubId, message.portId)
        r == parseTelemetryData(message.lines,
                                IF existing = <<>> THEN <<>> ELSE existing[1].sensorMapping)
        base == IF existing = <<>>
                THEN [rawLines |-> TextLines(Len(message.lines)),
                      sensorMapping |-> r.detectedSensor,
                      chartData |-> [deviceId |-> key,
                                     hubId |-> message.hubId,
                                     portId |-> message.portId,
                                     sensorName |-> IF r.detectedSensor = <<>> THEN "Unknown"
                                                    ELSE r.detectedSensor[1].name,
                                     fields |-> <<>>],
                      lastUpdate |-> clock]
                ELSE [existing[1] EXCEPT
                        !.rawLines = Min(@ + TextLines(Len(message.lines)), MaxTerminalLines),
                        !.sensorMapping = IF r.detectedSensor # <<>> THEN r.detectedSensor ELSE @,
                        !.lastUpdate = clock]
    IN IF Len(r.parsed) > 0 /\ base.sensorMapping # <<>>
       THEN [base EXCEPT !.chartData.fields = AddParsed(@, r.parsed, message.timestamp, clock),
                         !.chartData.sensorName = base.sensorMapping[1].name]
       ELSE base

Messages(clock) ==
    {[hubId |-> d.hubId, portId |-> d.portId, timestamp |-> ts, lines |-> lines] :
        d \in DevicePairs, ts \in {clock, clock - ClockStep} \cap Nat, lines \in Frames}

\* The store after processTelemetry(message), for buffers of up to rawBound lines
IngestUpTo(message, rawBound) ==
    LET key == deviceKey(message.hubId, message.portId)
        r == parseTelemetryData(message.lines,
                                IF devices[key] = <<>> THEN <<>> ELSE devices[key][1].sensorMapping)
        deviceState == processTelemetry(devices[key], message, now)
    IN /\ deviceState.rawLines <= rawBound
       /\ \A i \in 1..Len(deviceState.chartData.fields) :
             Len(deviceState.chartData.fields[i].data) <= MaxPoints
       /\ detectedSensors' = IF r.detectedSensor # <<>>
                             THEN [detectedSensors EXCEPT ![key] = r.detectedSensor[1].name]
                             ELSE detectedSensors
       /\ devices' = [devices EXCEPT ![key] = <<deviceState>>]

Ingest(message) == IngestUpTo(message, MaxRawLines)

\* MainLayout: a telemetry_stream message arrives
ProcessTelemetry(message) ==
    /\ Ingest(message)
    /\ UNCHANGED <<taskVars, connVars, viewVars, msgVars, callVars, now>>

ClearDevice(d) ==
    /\ devices' = [devices EXCEPT ![deviceKey(d.hubId, d.portId)] = <<>>]
    /\ UNCHANGED <<detectedSensors, taskVars, connVars, viewVars, msgVars, callVars, now>>

\* Time passes
Tick ==
    /\ now < MaxTicks * ClockStep
    /\ now' = now + ClockStep
    /\ UNCHANGED <<storeVars, taskVars, connVars, viewVars, msgVars, callVars>>

NextTelemetry ==
    \/ \E message \in Messages(now) : ProcessTelemetry(message)
    \/ \E d \in DevicePairs : ClearDevice(d)
    \/ Tick

\* The device whose frames are followed payload by payload
FrameDevices == {[hubId |-> "h1", portId |-> "p1"]}

\* The telemetry_stream messages a device's hub can send
FrameMessages(clock) ==
    {[hubId |-> d.hubId, portId |-> d.portId, timestamp |-> ts, data |-> data] :
        d \in FrameDevices, ts \in {clock, clock - ClockStep} \cap Nat, data \in Payloads64}

\* The mappings, by id, that match some line of a frame
MatchedBy(lines) == UNION {lines[i].matches : i \in 1..Len(lines)}

\* MainLayout: a telemetry_stream message arrives, payload as sent
Frame(message) ==
    /\ LET key == deviceKey(message.hubId, message.portId)
           decoded == decodeTelemetryData(message.data)
           previous == IF devices[key] = <<>> THEN <<>> ELSE devices[key][1].sensorMapping
       IN /\ Ingest([hubId |-> message.hubId, portId |-> message.portId,
                     timestamp |-> message.timestamp, lines |-> decoded.lines])
          /\ lastFrame' = <<[key |-> key,
                             valid |-> message.data.valid,
                             previous |-> previous,
                             matches |-> MatchedBy(decoded.lines),
                             added |-> Len(parseTelemetryData(decoded.lines, previous).parsed)]>>
    /\ UNCHANGED <<lastEvent, chartQuery, parserCall, taskVars, connVars, viewVars, msgVars, now>>

NextFrames ==
    \/ \E message \in FrameMessages(now) : Frame(message)
    \/ \E d \in FrameDevices : ClearDevice(d)
    \/ Tick

\* Decoded lines handed to the parser: those of Lines and one that both mappings match
ParserLines == Lines \cup {[matches |-> {"s1", "s2"}, numeric |-> {"temp", "volt"}]}

\* previousSensor: undefined or one of the mappings
PreviousSensors == {<<>>} \cup {<<SensorMappings[i]>> : i \in 1..Len(SensorMappings)}

\* A caller reads parseTelemetryData(data, previousSensor), data decoding to lines
ParseTelemetryData(lines, previousSensor) ==
    /\ parserCall = <<>>
    /\ parserCall' = <<[fn |-> "parseTelemetryData", lines |-> lines,
                        previousSensor |-> previousSensor,
                        result |-> parseTelemetryData(lines, previousSensor)]>>
    /\ UNCHANGED <<lastEvent, lastFrame, chartQuery, storeVars, taskVars, connVars, viewVars, msgVars, now>>

\* Frames of serial text that no mapping matches: a short one, and one longer
\* than the terminal buffer
BurstSizes == {100, MaxTerminalLines + 1}

Burst(n) == [i \in 1..n |-> [matches |-> {}, numeric |-> {}]]

BurstMessages(clock) ==
    {[hubId |-> d.hubId, portId |-> d.portId, timestamp |-> clock, lines |-> Burst(n)] :
        d \in DevicePairs, n \in BurstSizes}

\* MainLayout: a telemetry_stream message with a burst of text arrives
TerminalFrame(message) ==
    /\ IngestUpTo(message, 2 * MaxTerminalLines)
    /\ UNCHANGED <<taskVars, connVars, viewVars, msgVars, callVars, now>>

NextTerminal ==
    \/ \E message \in BurstMessages(now) : TerminalFrame(message)
    \/ \E d \in DevicePairs : ClearDevice(d)

----------------------------------------------------------------------------
(* The sensor parser on text.  A line is the sequence of its characters; a
   pattern is the sequence of the regular expression's items, of the kinds
   the application's patterns are made of (customSchemas.generateRegexPattern):
   one character of a class, a run of a class (zero or more, one or more),
   and a capturing group of one or more characters of a class.  A number is
   mant / 10^exp with no trailing zero in mant when exp > 0. *)

\* The lines handed to the parser
Texts ==
    [
     \* temp=23.5
     temp |->
        <<"t", "e", "m", "p", "=", "2", "3", ".", "5">>,
     \* TEMP=7
     tempUpper |->
        <<"T", "E", "M", "P", "=", "7">>,
     \* temp=.
     tempDot |->
        <<"t", "e", "m", "p", "=", ".">>,
     \* temp=1.2.3
     tempVersion |->
        <<"t", "e", "m", "p", "=", "1", ".", "2", ".", "3">>,
     \* temp=23.5 hum=40
     climate |->
        <<"t", "e", "m", "p", "=", "2", "3", ".", "5", " ", "h", "u", "m", "=", "4", "0">>,
     \* 1.5,2
     csv |->
        <<"1", ".", "5", ",", "2">>,
     \* val=abc
     word |->
        <<"v", "a", "l", "=", "a", "b", "c">>,
     \* val=12abc
     wordNum |->
        <<"v", "a", "l", "=", "1", "2", "a", "b", "c">>,
     \* hello
     noise |->
        <<"h", "e", "l", "l", "o">>,
     \* {"t":21.0,"label":"ok"}
     json |->
        <<"{", "\"", "t", "\"", ":", "2", "1", ".", "0", ",", "\"", "l", "a", "b", "e", "l", "\"", ":", "\"", "o", "k", "\"", "}">>,
     \* {"label":"ok"}
     jsonLabel |->
        <<"{", "\"", "l", "a", "b", "e", "l", "\"", ":", "\"", "o", "k", "\"", "}">>,
     \* {"t":21.0
     jsonCut |->
        <<"{", "\"", "t", "\"", ":", "2", "1", ".", "0">>,
     \* {"b":1,"2":2.5}
     jsonIndex |->
        <<"{", "\"", "b", "\"", ":", "1", ",", "\"", "2", "\"", ":", "2", ".", "5", "}">>,
     \* {"a":1,"b":2,"a":3.5}
     jsonTwice |->
        <<"{", "\"", "a", "\"", ":", "1", ",", "\"", "b", "\"", ":", "2", ",", "\"", "a", "\"", ":", "3", ".", "5", "}">>,
     \* {}
     jsonEmpty |->
        <<"{", "}">>,
     \* 7
     jsonNumber |->
        <<"7">>,
     \* null
     jsonNull |->
        <<"n", "u", "l", "l">>
    ]

Digits == <<"0", "1", "2", "3", "4", "5", "6", "7", "8", "9">>

Letters ==
    [lower |-> <<"a", "b", "c", "d", "e", "f", "g", "h", "i", "j", "k", "l", "m",
                 "n", "o", "p", "q", "r", "s", "t", "u", "v", "w", "x", "y", "z">>,
     upper |-> <<"A", "B", "C", "D", "E", "F", "G", "H", "I", "J", "K", "L", "M",
                 "N", "O", "P", "Q", "R", "S", "T", "U", "V", "W", "X", "Y", "Z">>]

\* The character as the 'i' flag compares it
Lower(c) ==
    IF c \in Range(Letters.upper)
    THEN Letters.lower[CHOOSE i \in 1..Len(Letters.upper) : Letters.upper[i] = c]
    ELSE c

\* The classes \d, [\d.], \w and \s
Class ==
    [digit |-> Range(Digits),
     number |-> Range(Digits) \cup {"."},
     word |-> Range(Letters.lower) \cup Range(Letters.upper) \cup Range(Digits) \cup {"_"},
     space |-> {" "}]

\* The character at pos, "" past the end
At(line, pos) == IF pos \in 1..Len(line) THEN line[pos] ELSE ""

RECURSIVE Normal(_, _)
Normal(mant, exp) ==
    IF exp > 0 /\ mant % 10 = 0 THEN Normal(mant \div 10, exp - 1)
    ELSE [mant |-> mant, exp |-> exp]

RECURSIVE DigitsValue(_)
DigitsValue(text) ==
    IF text = <<>> THEN 0
    ELSE DigitsValue(SubSeq(text, 1, Len(text) - 1)) * 10
         + (CHOOSE i \in 1..Len(Digits) : Digits[i] = text[Len(text)]) - 1

\* How many characters from pos on are of the class
RECURSIVE RunLength(_, _, _)
RunLength(line, pos, class) ==
    IF pos <= Len(line) /\ (\E x \in class : Lower(x) = Lower(line[pos]))
    THEN 1 + RunLength(line, pos + 1, class)
    ELSE 0

\* parseFloat of a capture, <<>> standing for undefined: the longest prefix
\* that is digits with an optional fraction, none (the NaN) when there is no digit
parseFloat(captured) ==
    IF captured = <<>> THEN <<>>
    ELSE LET text == captured[1]
             int == RunLength(text, 1, Class.digit)
             frac == IF At(text, int + 1) = "." THEN RunLength(text, int + 2, Class.digit) ELSE 0
         IN IF int + frac = 0 THEN <<>>
            ELSE <<Normal(DigitsValue(SubSeq(text, 1, int) \o SubSeq(text, int + 2, int + 1 + frac)),
                          frac)>>

\* An item of a pattern: one character of the class ("one"), a run of it
\* ("star", "plus"), a capturing group of a run of one or more ("group"), or
\* a group that is never closed ("unclosed")
Item(kind, class) == [kind |-> kind, class |-> class]

RECURSIVE Literal(_)
Literal(text) ==
    IF text = <<>> THEN <<>> ELSE <<Item("one", {Head(text)})>> \o Literal(Tail(text))

\* new RegExp(pattern, 'i'): <<>> when it throws
RegExp(pattern) ==
    IF \E i \in 1..Len(pattern) : pattern[i].kind = "unclosed" THEN <<>> ELSE <<pattern>>

\* The match of the items from pos on, longest runs first, with the groups captured so far
RECURSIVE MatchAt(_, _, _, _)
RECURSIVE MatchRun(_, _, _, _, _)
MatchAt(items, line, pos, groups) ==
    IF items = <<>> THEN <<[groups |-> groups]>>
    ELSE IF Head(items).kind = "one"
    THEN IF RunLength(line, pos, Head(items).class) > 0
         THEN MatchAt(Tail(items), line, pos + 1, groups)
         ELSE <<>>
    ELSE MatchRun(items, line, pos, groups, RunLength(line, pos, Head(items).class))

MatchRun(items, line, pos, groups, n) ==
    IF n < (IF Head(items).kind = "star" THEN 0 ELSE 1) THEN <<>>
    ELSE LET captured == IF Head(items).kind = "group"
                         THEN Append(groups, SubSeq(line, pos, pos + n - 1))
                         ELSE groups
             match == MatchAt(Tail(items), line, pos + n, captured)
         IN IF match # <<>> THEN match
            ELSE MatchRun(items, line, pos, groups, n - 1)

\* regex.exec(line): the leftmost match from start on, <<>> for null
RECURSIVE exec(_, _, _)
exec(items, line, start) ==
    IF start > Len(line) + 1 THEN <<>>
    ELSE LET match == MatchAt(items, line, start, <<>>)
         IN IF match # <<>> THEN match ELSE exec(items, line, start + 1)

\* match[captureGroup], <<>> for undefined
Captured(match, captureGroup) ==
    IF captureGroup \in 1..Len(match.groups) THEN <<match.groups[captureGroup]>> ELSE <<>>

\* A detection that gives up at the first pattern that does not compile
RECURSIVE detectSensorTypeAborting(_, _)
detectSensorTypeAborting(sensorMappings, line) ==
    IF sensorMappings = <<>> THEN <<>>
    ELSE LET regex == RegExp(Head(sensorMappings).pattern) IN
         IF regex = <<>> THEN <<>>
         ELSE IF exec(regex[1], line, 1) # <<>> THEN <<Head(sensorMappings)>>
         ELSE detectSensorTypeAborting(Tail(sensorMappings), line)

\* detectSensorType over the registered mappings
RECURSIVE detectSensorTypeOfText(_, _)
detectSensorTypeOfText(sensorMappings, line) ==
    IF sensorMappings = <<>> THEN <<>>
    ELSE LET regex == RegExp(Head(sensorMappings).pattern) IN
         IF regex # <<>> /\ exec(regex[1], line, 1) # <<>> THEN <<Head(sensorMappings)>>
         ELSE detectSensorTypeOfText(Tail(sensorMappings), line)

\* A string literal at pos: its characters and the place after the closing quote
RECURSIVE UntilQuote(_, _)
UntilQuote(line, pos) ==
    IF pos > Len(line) \/ line[pos] = "\"" THEN 0 ELSE 1 + UntilQuote(line, pos + 1)

ScanString(line, pos) ==
    LET n == UntilQuote(line, pos + 1) IN
    IF At(line, pos) = "\"" /\ At(line, pos + 1 + n) = "\""
    THEN [ok |-> TRUE, text |-> SubSeq(line, pos + 1, pos + n), next |-> pos + n + 2]
    ELSE [ok |-> FALSE, text |-> <<>>, next |-> pos]

\* A number literal at pos: digits without a leading zero, and an optional
\* fraction of at least one digit
ScanNumber(line, pos) ==
    LET int == RunLength(line, pos, Class.digit)
        dot == At(line, pos + int) = "."
        frac == IF dot THEN RunLength(line, pos + int + 1, Class.digit) ELSE 0
    IN IF int = 0 \/ (int > 1 /\ line[pos] = "0") \/ (dot /\ frac = 0)
       THEN [ok |-> FALSE, num |-> [mant |-> 0, exp |-> 0], next |-> pos]
       ELSE [ok |-> TRUE,
             num |-> Normal(DigitsValue(SubSeq(line, pos, pos + int - 1)
                                        \o SubSeq(line, pos + int + 1, pos + int + frac)), frac),
             next |-> pos + int + (IF dot THEN 1 + frac ELSE 0)]

\* A member's value at pos: a string or a number
ScanValue(line, pos) ==
    IF At(line, pos) = "\""
    THEN LET s == ScanString(line, pos)
         IN [ok |-> s.ok, type |-> "string", num |-> [mant |-> 0, exp |-> 0], next |-> s.next]
    ELSE LET n == ScanNumber(line, pos)
         IN [ok |-> n.ok, type |-> "number", num |-> n.num, next |-> n.next]

\* The members of an object from pos on, up to and with the closing brace
RECURSIVE ScanMembers(_, _, _)
ScanMembers(line, pos, members) ==
    LET key == ScanString(line, pos)
        value == ScanValue(line, key.next + 1)
        all == Append(members, [key |-> key.text, type |-> value.type, num |-> value.num])
    IN IF ~key.ok \/ At(line, key.next) # ":" \/ ~value.ok
       THEN [ok |-> FALSE, members |-> <<>>, next |-> pos]
       ELSE IF At(line, value.next) = "," THEN ScanMembers(line, value.next + 1, all)
       ELSE IF At(line, value.next) = "}" THEN [ok |-> TRUE, members |-> all, next |-> value.next + 1]
       ELSE [ok |-> FALSE, members |-> <<>>, next |-> pos]

\* JSON.parse(line) for a text that is an object of strings and numbers, a
\* number or null; ok is FALSE when it throws
JSONparse(line) ==
    IF At(line, 1) = "{"
    THEN IF At(line, 2) = "}"
         THEN [ok |-> Len(line) = 2, kind |-> "object", members |-> <<>>]
         ELSE LET r == ScanMembers(line, 2, <<>>)
              IN [ok |-> r.ok /\ r.next = Len(line) + 1, kind |-> "object", members |-> r.members]
    ELSE IF line = <<"n", "u", "l", "l">>
    THEN [ok |-> TRUE, kind |-> "null", members |-> <<>>]
    ELSE LET n == ScanNumber(line, 1)
         IN [ok |-> n.ok /\ n.next = Len(line) + 1, kind |-> "number", members |-> <<>>]

\* Object.entries of the parsed object: every key once, with the value of its
\* last member; the keys that are array indices (digits without a leading
\* zero) first, ascending, then the others as first written
ObjectEntries(members) ==
    LET IsIndex(key) ==
            /\ key # <<>>
            /\ RunLength(key, 1, Class.digit) = Len(key)
            /\ (Len(key) = 1 \/ key[1] # "0")
        firsts == SelectSeq([i \in 1..Len(members) |-> [at |-> i, key |-> members[i].key]],
                            LAMBDA m : \A j \in 1..(m.at - 1) : members[j].key # m.key)
        indexed == SortSeq(SelectSeq(firsts, LAMBDA m : IsIndex(m.key)),
                           LAMBDA a, b : DigitsValue(a.key) < DigitsValue(b.key))
        named == SelectSeq(firsts, LAMBDA m : ~IsIndex(m.key))
        order == indexed \o named
    IN [i \in 1..Len(order) |->
            members[CHOOSE j \in 1..Len(members) :
                        /\ members[j].key = order[i].key
                        /\ \A k \in (j + 1)..Len(members) : members[k].key # order[i].key]]

\* A parse that keeps a field whose capture is not a number, with value 0
parseRegexLineKeepingAll(line, sensor) ==
    LET regex == RegExp(sensor.pattern)
        match == IF regex = <<>> THEN <<>> ELSE exec(regex[1], line, 1)
    IN IF match = <<>> THEN <<>>
       ELSE <<[sensorId |-> sensor.id, sensorName |-> sensor.name,
               fields |-> [i \in 1..Len(sensor.fields) |->
                   LET value == parseFloat(Captured(match[1], sensor.fields[i].captureGroup))
                   IN [name |-> sensor.fields[i].name,
                       value |-> IF value = <<>> THEN [mant |-> 0, exp |-> 0] ELSE value[1]]]]>>

\* The parsed data of a sensor's fields, null (<<>>) when there is none
ParsedSensorData(sensor, fields) ==
    IF Len(fields) = 0 THEN <<>>
    ELSE <<[sensorId |-> sensor.id, sensorName |-> sensor.name,
            fields |-> [i \in 1..Len(fields) |-> [name |-> fields[i].key, value |-> fields[i].num]]]>>

\* Object.entries(JSON.parse(line)); none when either throws, and none of a number
JsonEntries(jsonData) ==
    IF jsonData.ok /\ jsonData.kind = "object" THEN ObjectEntries(jsonData.members) ELSE <<>>

\* A parse of a JSON line that keeps every key, a string's value as 0
parseJsonLineEveryKey(line, sensor) ==
    ParsedSensorData(sensor, JsonEntries(JSONparse(line)))

\* The json branch of parseSensorLine
parseJsonLine(line, sensor) ==
    ParsedSensorData(sensor,
                     SelectSeq(JsonEntries(JSONparse(line)), LAMBDA e : e.type = "number"))

\* The key-value and csv branch of parseSensorLine
parseRegexLine(line, sensor) ==
    LET regex == RegExp(sensor.pattern)
        match == IF regex = <<>> THEN <<>> ELSE exec(regex[1], line, 1)
    IN IF match = <<>> THEN <<>>
       ELSE LET fields == [i \in 1..Len(sensor.fields) |->
                    LET value == parseFloat(Captured(match[1], sensor.fields[i].captureGroup))
                    IN IF value = <<>> THEN <<>>
                       ELSE <<[name |-> sensor.fields[i].name, value |-> value[1]]>>]
                validFields == SelectSeq(fields, LAMBDA f : f # <<>>)
            IN IF Len(validFields) = 0 THEN <<>>
               ELSE <<[sensorId |-> sensor.id, sensorName |-> sensor.name,
                       fields |-> [i \in 1..Len(validFields) |-> validFields[i][1]]]>>

\* parseSensorLine(line, sensor), <<>> for null
parseSensorLineOfText(line, sensor) ==
    IF sensor.format = "json" THEN parseJsonLine(line, sensor)
    ELSE parseRegexLine(line, sensor)

\* The mappings that can be registered
Mapping ==
    [
     temp |->
        [id |-> "temp", name |-> "Temperature", format |-> "key-value",
         pattern |-> Literal(<<"t", "e", "m", "p", "=">>) \o <<Item("group", Class.number)>>,
         fields |-> <<[name |-> "temp", captureGroup |-> 1]>>],
     climate |->
        [id |-> "climate", name |-> "Climate", format |-> "key-value",
         pattern |-> Literal(<<"t", "e", "m", "p">>)
                     \o <<Item("one", {"=", ":"}), Item("star", Class.space), Item("group", Class.number), Item("plus", Class.space)>>
                     \o Literal(<<"h", "u", "m">>)
                     \o <<Item("one", {"=", ":"}), Item("star", Class.space), Item("group", Class.number)>>,
         fields |-> <<[name |-> "temp", captureGroup |-> 1], [name |-> "hum", captureGroup |-> 2]>>],
     csv |->
        [id |-> "csv", name |-> "Pair", format |-> "csv",
         pattern |-> <<Item("group", Class.number), Item("one", {","}), Item("star", Class.space), Item("group", Class.number)>>,
         fields |-> <<[name |-> "a", captureGroup |-> 1], [name |-> "b", captureGroup |-> 2],
                      [name |-> "c", captureGroup |-> 3]>>],
     word |->
        [id |-> "word", name |-> "Word", format |-> "key-value",
         pattern |-> Literal(<<"v", "a", "l", "=">>) \o <<Item("group", Class.word)>>,
         fields |-> <<[name |-> "val", captureGroup |-> 1]>>],
     broken |->
        [id |-> "broken", name |-> "Broken", format |-> "key-value",
         pattern |-> Literal(<<"t", "e", "m", "p", "=">>) \o <<Item("unclosed", {}), Item("plus", Class.number)>>,
         fields |-> <<[name |-> "temp", captureGroup |-> 1]>>],
     json |->
        [id |-> "json", name |-> "Json", format |-> "json",
         pattern |-> Literal(<<"{">>),
         fields |-> <<>>]
    ]

\* sensorMappings as they can be registered: up to MaxMappings of them, each once, in any order
Registries ==
    {r \in SeqsUpTo({Mapping[k] : k \in DOMAIN Mapping}, MaxMappings) :
        \A i, j \in 1..Len(r) : i # j => r[i] # r[j]}

\* A caller reads detectSensorType(line) with sensorMappings registered
DetectSensorType(sensorMappings, line) ==
    /\ parserCall = <<>>
    /\ parserCall' = <<[fn |-> "detectSensorType", sensorMappings |-> sensorMappings,
                        line |-> line,
                        result |-> detectSensorTypeOfText(sensorMappings, line)]>>
    /\ UNCHANGED <<lastEvent, lastFrame, chartQuery, storeVars, taskVars, connVars, viewVars, msgVars, now>>

\* A caller reads parseSensorLine(line, sensor)
ParseSensorLine(line, sensor) ==
    /\ parserCall = <<>>
    /\ parserCall' = <<[fn |-> "parseSensorLine", line |-> line, sensor |-> sensor,
                        result |-> parseSensorLineOfText(line, sensor)]>>
    /\ UNCHANGED <<lastEvent, lastFrame, chartQuery, storeVars, taskVars, connVars, viewVars, msgVars, now>>

\* The caller has taken the result; the next call can begin
ParserReturn ==
    /\ parserCall # <<>>
    /\ parserCall' = <<>>
    /\ UNCHANGED <<lastEvent, lastFrame, chartQuery, storeVars, taskVars, connVars, viewVars, msgVars, now>>

----------------------------------------------------------------------------
(* hubStore subscriptions and the LiveTelemetry page.  A chart key is a device
   key or a merged chart's id; both are pairs of strings.  *)

\* A table whose 15m entry is fifteen seconds
getTimeWindowSeconds(window) ==
    CASE window = "5m" -> 5 * 60 * 1000
      [] window = "15m" -> 15 * 1000
      [] window = "30m" -> 30 * 60 * 1000
      [] window = "1h" -> 60 * 60 * 1000

getTimeWindowMilliseconds(window) ==
    CASE window = "5m" -> 5 * 60 * 1000
      [] window = "15m" -> 15 * 60 * 1000
      [] window = "30m" -> 30 * 60 * 1000
      [] window = "1h" -> 60 * 60 * 1000

\* A filter that also keeps the points exactly as old as the window
getChartDataInclusive(devs, hubId, portId, window, clock) ==
    LET deviceData == devs[deviceKey(hubId, portId)] IN
    IF deviceData = <<>> \/ Len(deviceData[1].chartData.fields) = 0 THEN <<>>
    ELSE [i \in 1..Len(deviceData[1].chartData.fields) |->
            [deviceData[1].chartData.fields[i] EXCEPT
                !.data = SelectSeq(@, LAMBDA point :
                            clock - point.timestamp <= getTimeWindowMilliseconds(window))]]

getChartData(devs, hubId, portId, window, clock) ==
    LET deviceData == devs[deviceKey(hubId, portId)] IN
    IF deviceData = <<>> \/ Len(deviceData[1].chartData.fields) = 0 THEN <<>>
    ELSE [i \in 1..Len(deviceData[1].chartData.fields) |->
            [deviceData[1].chartData.fields[i] EXCEPT
                !.data = SelectSeq(@, LAMBDA point :
                            clock - point.timestamp < getTimeWindowMilliseconds(window))]]

\* The standard time windows
TimeWindows == {"5m", "15m", "30m", "1h"}

\* How old, in milliseconds, the readings of an arriving frame are: a minute
\* ahead of the client's clock, fresh, and around the ends of the windows
FrameAges ==
    {0 - 60 * 1000, 0, 5 * 60 * 1000 - 1, 5 * 60 * 1000, 15 * 60 * 1000,
     30 * 60 * 1000 - 1, 30 * 60 * 1000, 60 * 60 * 1000 - 1}

\* Frames of one climate line, stamped by the hub
WindowMessages(clock) ==
    {[hubId |-> d.hubId, portId |-> d.portId, timestamp |-> clock - age,
      lines |-> <<[matches |-> {"s1"}, numeric |-> {"temp", "hum"}]>>] :
        d \in FrameDevices, age \in {a \in FrameAges : clock - a >= 0}}

\* The devices asked about: one that sends frames and one never heard of
QueryDevices == FrameDevices \cup {[hubId |-> "h2", portId |-> "p1"]}

\* MainLayout: a telemetry_stream message arrives; what was read from the store is out of date
WindowFrame(message) ==
    /\ Ingest(message)
    /\ chartQuery' = <<>>
    /\ UNCHANGED <<lastEvent, lastFrame, parserCall, taskVars, connVars, viewVars, msgVars, now>>

\* Time passes; what was read from the store is out of date
WindowTick ==
    /\ now < MaxTicks * ClockStep
    /\ now' = now + ClockStep
    /\ chartQuery' = <<>>
    /\ UNCHANGED <<lastEvent, lastFrame, parserCall, storeVars, taskVars, connVars, viewVars, msgVars>>

\* A caller reads getChartData(hubId, portId, window)
GetChartData(d, window) ==
    /\ chartQuery' = <<[hubId |-> d.hubId, portId |-> d.portId, window |-> window,
                        result |-> getChartData(devices, d.hubId, d.portId, window, now)]>>
    /\ UNCHANGED <<lastEvent, lastFrame, parserCall, storeVars, taskVars, connVars, viewVars, msgVars, now>>

NextWindows ==
    \/ \E message \in WindowMessages(now) : WindowFrame(message)
    \/ \E d \in FrameDevices : ClearDevice(d)
    \/ WindowTick
    \/ \E d \in QueryDevices, window \in TimeWindows : GetChartData(d, window)

addSubscription(subs, subscription) ==
    IF \E i \in 1..Len(subs) :
          deviceKey(subs[i].hubId, subs[i].portId) = deviceKey(subscription.hubId, subscription.portId)
    THEN subs
    ELSE Append(subs, subscription)

\* A removal that goes by the port alone
removeSubscriptionByPort(subs, hubId, portId) ==
    SelectSeq(subs, LAMBDA s : s.portId # portId)

removeSubscription(subs, hubId, portId) ==
    SelectSeq(subs, LAMBDA s : deviceKey(s.hubId, s.portId) # deviceKey(hubId, portId))

\* The window devicesWithCharts hands to getChartData
QueryWindow(window, range) ==
    IF window = "custom" /\ range # <<>> THEN "1h" ELSE window

\* A range filter that leaves out the points stamped exactly at the end
filteredFieldsBeforeEnd(rawFields, window, range) ==
    IF window = "custom" /\ range # <<>>
    THEN [i \in 1..Len(rawFields) |->
            [rawFields[i] EXCEPT
                !.data = SelectSeq(@, LAMBDA p :
                            p.timestamp >= range[1].start /\ p.timestamp < range[1].end)]]
    ELSE rawFields

\* filteredFields: with a custom range, the points stamped within start..end
filteredFields(rawFields, window, range) ==
    IF window = "custom" /\ range # <<>>
    THEN [i \in 1..Len(rawFields) |->
            [rawFields[i] EXCEPT
                !.data = SelectSeq(@, LAMBDA p :
                            p.timestamp >= range[1].start /\ p.timestamp <= range[1].end)]]
    ELSE rawFields

\* devicesWithCharts: one entry per subscription whose device has a chart with fields
RECURSIVE devicesWithCharts(_, _, _, _, _)
devicesWithCharts(subs, devs, window, range, clock) ==
    IF subs = <<>> THEN <<>>
    ELSE LET sub == Head(subs)
             key == deviceKey(sub.hubId, sub.portId)
             rawFields == getChartData(devs, sub.hubId, sub.portId, QueryWindow(window, range), clock)
             fields == filteredFields(rawFields, window, range)
         IN (IF devs[key] # <<>> /\ Len(fields) > 0
             THEN <<[key |-> key, chart |-> [devs[key][1].chartData EXCEPT !.fields = fields]]>>
             ELSE <<>>)
            \o devicesWithCharts(Tail(subs), devs, window, range, clock)

isMergedChart(chart) == "isMerged" \in DOMAIN chart

SourceKeys(chart) == [i \in 1..Len(chart.sources) |->
                        deviceKey(chart.sources[i].hubId, chart.sources[i].portId)]

\* allCharts, in the Map's insertion order: the device charts no merged chart
\* lists as a source, then the merged charts
allCharts(subs, devs, merged, window, range, clock) ==
    LET hidden == UNION {Range(SourceKeys(merged[i])) : i \in 1..Len(merged)} IN
    SelectSeq(devicesWithCharts(subs, devs, window, range, clock), LAMBDA e : e.key \notin hidden)
    \o [i \in 1..Len(merged) |-> [key |-> merged[i].id, chart |-> merged[i]]]

\* Map.get: <<>> when the key is absent
Get(entries, key) ==
    LET hits == {i \in 1..Len(entries) : entries[i].key = key} IN
    IF hits = {} THEN <<>> ELSE <<entries[CHOOSE i \in hits : TRUE].chart>>

Keys(entries) == [i \in 1..Len(entries) |-> entries[i].key]

\* The useEffect on allCharts.size: keep the known keys still present, append the new ones
SyncChartOrder(prev, newKeys) ==
    SelectSeq(prev, LAMBDA k : k \in Range(newKeys))
    \o SelectSeq(newKeys, LAMBDA k : k \notin Range(prev))

\* The charts drawn: chartOrder.map(key => allCharts.get(key)).filter(Boolean)
Rendered(order, entries) == SelectSeq(order, LAMBDA k : Get(entries, k) # <<>>)

\* Array.prototype.splice(start, deleteCount, ...items), the array it leaves
Splice(arr, start, deleteCount, items) ==
    LET from == IF start < 0 THEN (IF Len(arr) + start < 0 THEN 0 ELSE Len(arr) + start)
                ELSE Min(start, Len(arr))
        upto == Min(from + deleteCount, Len(arr))
    IN SubSeq(arr, 1, from) \o items \o SubSeq(arr, upto + 1, Len(arr))

\* Array.prototype.indexOf
IndexOf(arr, x) ==
    LET hits == {i \in 1..Len(arr) : arr[i] = x} IN
    IF hits = {} THEN -1 ELSE (CHOOSE i \in hits : \A j \in hits : i <= j) - 1

\* Map.delete on the merged charts
DeleteMerged(merged, id) == SelectSeq(merged, LAMBDA m : m.id # id)

\* An onDragEnd that leaves the merged chart that was dragged in the Map
onDragEndKeepSource(merged, order, entries, shift, sourceIndex, destIndex, mergedId) ==
    LET sourceChart == Get(entries, order[sourceIndex + 1])
        destChart == Get(entries, order[destIndex + 1])
    IN IF sourceIndex = destIndex THEN [mergedCharts |-> merged, chartOrder |-> order]
       ELSE IF shift /\ sourceChart # <<>> /\ destChart # <<>>
       THEN LET sourceSources == IF isMergedChart(sourceChart[1]) THEN sourceChart[1].sources
                                 ELSE sourceChart
                destSources == IF isMergedChart(destChart[1]) THEN destChart[1].sources
                               ELSE destChart
                newMerged == [id |-> mergedId, sources |-> destSources \o sourceSources,
                              isMerged |-> TRUE]
                m1 == merged
                m2 == IF isMergedChart(destChart[1]) THEN DeleteMerged(m1, destChart[1].id)
                      ELSE m1
                newOrder == RemoveAt(order, sourceIndex + 1)
                adjustedDestIndex == IF sourceIndex < destIndex THEN destIndex - 1 ELSE destIndex
            IN [mergedCharts |-> Append(m2, newMerged),
                chartOrder |-> [newOrder EXCEPT ![adjustedDestIndex + 1] = mergedId]]
       ELSE [mergedCharts |-> merged,
             chartOrder |-> Splice(Splice(order, sourceIndex, 1, <<>>), destIndex, 0,
                                   <<order[sourceIndex + 1]>>)]

\* onDragEnd with a destination: the merged charts and the chart order it sets
onDragEnd(merged, order, entries, shift, sourceIndex, destIndex, mergedId) ==
    LET sourceChart == Get(entries, order[sourceIndex + 1])
        destChart == Get(entries, order[destIndex + 1])
    IN IF sourceIndex = destIndex THEN [mergedCharts |-> merged, chartOrder |-> order]
       ELSE IF shift /\ sourceChart # <<>> /\ destChart # <<>>
       THEN LET sourceSources == IF isMergedChart(sourceChart[1]) THEN sourceChart[1].sources
                                 ELSE sourceChart
                destSources == IF isMergedChart(destChart[1]) THEN destChart[1].sources
                               ELSE destChart
                newMerged == [id |-> mergedId, sources |-> destSources \o sourceSources,
                              isMerged |-> TRUE]
                m1 == IF isMergedChart(sourceChart[1]) THEN DeleteMerged(merged, sourceChart[1].id)
                      ELSE merged
                m2 == IF isMergedChart(destChart[1]) THEN DeleteMerged(m1, destChart[1].id)
                      ELSE m1
                newOrder == RemoveAt(order, sourceIndex + 1)
                adjustedDestIndex == IF sourceIndex < destIndex THEN destIndex - 1 ELSE destIndex
            IN [mergedCharts |-> Append(m2, newMerged),
                chartOrder |-> [newOrder EXCEPT ![adjustedDestIndex + 1] = mergedId]]
       ELSE [mergedCharts |-> merged,
             chartOrder |-> Splice(Splice(order, sourceIndex, 1, <<>>), destIndex, 0,
                                   <<order[sourceIndex + 1]>>)]

handleSeparateChartNoReinsert(merged, order, chartId) ==
    [mergedCharts |-> DeleteMerged(merged, chartId),
     chartOrder |-> Splice(order, IndexOf(order, chartId), 1, <<>>)]

handleSeparateChart(merged, order, chartId) ==
    LET found == {i \in 1..Len(merged) : merged[i].id = chartId} IN
    IF found = {} THEN [mergedCharts |-> merged, chartOrder |-> order]
    ELSE LET chart == merged[CHOOSE i \in found : TRUE]
             chartIndex == IndexOf(order, chartId)
         IN [mergedCharts |-> DeleteMerged(merged, chartId),
             chartOrder |-> Splice(Splice(order, chartIndex, 1, <<>>), chartIndex, 0,
                                   SourceKeys(chart))]

\* The render that follows a change, and the effect it runs when allCharts.size has changed
PageEffect(order) ==
    LET entries == allCharts(activeSubscriptions', devices', mergedCharts', timeWindow', customTimeRange', now') IN
    /\ chartOrder' = IF Len(entries) # lastSize THEN SyncChartOrder(order, Keys(entries)) ELSE order
    /\ lastSize' = Len(entries)

\* DeviceManager: a device is subscribed
AddSubscription(d) ==
    /\ activeSubscriptions' = addSubscription(activeSubscriptions, d)
    /\ UNCHANGED <<mergedCharts, shiftPressed, mergeClock, groupsJoined, storeVars, taskVars, connVars, msgVars, callVars, rangeVars, now>>
    /\ PageEffect(chartOrder)

\* DeviceManager, or MainLayout on a device_event: a device is unsubscribed
RemoveSubscription(d) ==
    /\ activeSubscriptions' = removeSubscription(activeSubscriptions, d.hubId, d.portId)
    /\ UNCHANGED <<mergedCharts, shiftPressed, mergeClock, groupsJoined, storeVars, taskVars, connVars, msgVars, callVars, rangeVars, now>>
    /\ PageEffect(chartOrder)

\* The frames fed to the charts: two-field climate lines stamped with the current time
ChartMessages(clock) ==
    {[hubId |-> d.hubId, portId |-> d.portId, timestamp |-> clock, lines |-> <<line>>] :
        d \in ChartPairs, line \in {l \in Lines : l.numeric = {"temp", "hum"}}}

\* A telemetry_stream message arrives while the page is shown
TelemetryShown(message) ==
    /\ Ingest(message)
    /\ UNCHANGED <<activeSubscriptions, mergedCharts, shiftPressed, mergeClock, groupsJoined,
                   taskVars, connVars, msgVars, callVars, rangeVars, now>>
    /\ PageEffect(chartOrder)

ShiftDown ==
    /\ shiftPressed' = TRUE
    /\ UNCHANGED <<activeSubscriptions, mergedCharts, mergeClock, groupsJoined, storeVars, taskVars, connVars, msgVars, callVars, rangeVars, now>>
    /\ PageEffect(chartOrder)

ShiftUp ==
    /\ shiftPressed' = FALSE
    /\ UNCHANGED <<activeSubscriptions, mergedCharts, mergeClock, groupsJoined, storeVars, taskVars, connVars, msgVars, callVars, rangeVars, now>>
    /\ PageEffect(chartOrder)

\* A chart drawn at sourceIndex is dropped at destIndex; drops happen at distinct
\* instants, so the id made from Date.now() is new; merges is how many merging
\* drops the run allows
Drop(sourceIndex, destIndex, merges) ==
    LET entries == allCharts(activeSubscriptions, devices, mergedCharts, timeWindow, customTimeRange, now)
        drawn == Len(Rendered(chartOrder, entries))
        after == onDragEnd(mergedCharts, chartOrder, entries, shiftPressed, sourceIndex, destIndex,
                           <<"merged", ToString(mergeClock + 1)>>)
    IN /\ sourceIndex # destIndex
       /\ sourceIndex < Len(chartOrder) /\ destIndex < Len(chartOrder)
       /\ sourceIndex < drawn /\ destIndex < drawn
       /\ after.mergedCharts # mergedCharts => mergeClock < merges
       /\ mergedCharts' = after.mergedCharts
       /\ mergeClock' = IF after.mergedCharts # mergedCharts THEN mergeClock + 1 ELSE mergeClock
       /\ groupsJoined' = (groupsJoined \/
                            (/\ after.mergedCharts # mergedCharts
                             /\ \A i \in {sourceIndex, destIndex} :
                                   \E n \in 1..Len(mergedCharts) : mergedCharts[n].id = chartOrder[i + 1]))
       /\ UNCHANGED <<activeSubscriptions, shiftPressed, storeVars, taskVars, connVars, msgVars, callVars, rangeVars, now>>
       /\ PageEffect(after.chartOrder)

DragEnd(sourceIndex, destIndex) == Drop(sourceIndex, destIndex, MaxMerges)

\* The Separate button of a merged chart that is drawn
Separate(chartId) ==
    LET entries == allCharts(activeSubscriptions, devices, mergedCharts, timeWindow, customTimeRange, now)
        after == handleSeparateChart(mergedCharts, chartOrder, chartId)
    IN /\ chartId \in Range(Rendered(chartOrder, entries))
       /\ \E i \in 1..Len(mergedCharts) : mergedCharts[i].id = chartId
       /\ mergedCharts' = after.mergedCharts
       /\ UNCHANGED <<activeSubscriptions, shiftPressed, mergeClock, groupsJoined, storeVars, taskVars, connVars, msgVars, callVars, rangeVars, now>>
       /\ PageEffect(after.chartOrder)

MergedIds == {<<"merged", ToString(n)>> : n \in 1..MaxMerges}

NextCharts ==
    \/ \E d \in ChartPairs : AddSubscription(d)
    \/ \E d \in ChartPairs : RemoveSubscription(d)
    \/ \E message \in ChartMessages(now) : TelemetryShown(message)
    \/ ShiftDown
    \/ ShiftUp
    \/ \E sourceIndex, destIndex \in 0..(MaxCharts - 1) : DragEnd(sourceIndex, destIndex)
    \/ \E chartId \in MergedIds : Separate(chartId)

\* The page with four devices, subscribed one after the other, each sending
\* one frame, and the Shift key held
GroupOrder ==
    <<[hubId |-> "h1", portId |-> "p1"], [hubId |-> "h1", portId |-> "p2"],
      [hubId |-> "h2", portId |-> "p1"], [hubId |-> "h2", portId |-> "p2"]>>

SubscribeNext(i) ==
    /\ Len(activeSubscriptions) = i - 1
    /\ AddSubscription(GroupOrder[i])

GroupMessages(clock) ==
    {[hubId |-> d.hubId, portId |-> d.portId, timestamp |-> clock, lines |-> <<line>>] :
        d \in GroupPairs, line \in {l \in Lines : l.numeric = {"temp", "hum"}}}

FirstFrame(message) ==
    /\ devices[deviceKey(message.hubId, message.portId)] = <<>>
    /\ TelemetryShown(message)

\* A drop with Shift held
MergeDrop(sourceIndex, destIndex) ==
    /\ shiftPressed
    /\ Drop(sourceIndex, destIndex, MaxGroupMerges)

GroupIds == {<<"merged", ToString(n)>> : n \in 1..MaxGroupMerges}

NextGroups ==
    \/ \E i \in 1..Len(GroupOrder) : SubscribeNext(i)
    \/ \E message \in GroupMessages(now) : FirstFrame(message)
    \/ ShiftDown
    \/ \E sourceIndex, destIndex \in 0..(Cardinality(GroupPairs) - 1) :
          MergeDrop(sourceIndex, destIndex)
    \/ \E chartId \in GroupIds : Separate(chartId)

\* The instants the custom range dialog's inputs can spell
RangeStamps == {0, ClockStep, 2 * ClockStep}

\* What the dialog's date and time inputs make of start or end: nothing while
\* an input is empty
RangeInputs == {<<>>} \cup {<<t>> : t \in RangeStamps}

\* The Apply button of the custom range dialog
ApplyCustomTimeRange(start, end) ==
    /\ showCustomTimeDialog
    /\ IF start = <<>> \/ end = <<>> THEN UNCHANGED rangeVars
       ELSE IF start[1] >= end[1] THEN UNCHANGED rangeVars
       ELSE /\ customTimeRange' = <<[start |-> start[1], end |-> end[1]]>>
            /\ timeWindow' = "custom"
            /\ showCustomTimeDialog' = FALSE
    /\ UNCHANGED <<activeSubscriptions, mergedCharts, shiftPressed, mergeClock, groupsJoined,
                   storeVars, taskVars, connVars, msgVars, callVars, now>>
    /\ PageEffect(chartOrder)

\* The time window select
handleTimeWindowChange(value) ==
    /\ IF value = "custom"
       THEN /\ showCustomTimeDialog' = TRUE
            /\ UNCHANGED <<timeWindow, customTimeRange>>
       ELSE /\ timeWindow' = value
            /\ customTimeRange' = <<>>
            /\ UNCHANGED showCustomTimeDialog
    /\ UNCHANGED <<activeSubscriptions, mergedCharts, shiftPressed, mergeClock, groupsJoined,
                   storeVars, taskVars, connVars, msgVars, callVars, now>>
    /\ PageEffect(chartOrder)

\* The dialog is closed, or opened again by the button beside the select
setShowCustomTimeDialog(open) ==
    /\ IF open THEN timeWindow = "custom" /\ customTimeRange # <<>>
       ELSE showCustomTimeDialog
    /\ showCustomTimeDialog' = open
    /\ UNCHANGED <<timeWindow, customTimeRange, activeSubscriptions, mergedCharts, shiftPressed,
                   mergeClock, groupsJoined, storeVars, taskVars, connVars, msgVars, callVars, now>>
    /\ PageEffect(chartOrder)

\* Frames of one climate line, stamped with the hub's clock
RangeMessages(clock) ==
    {[hubId |-> d.hubId, portId |-> d.portId, timestamp |-> ts,
      lines |-> <<[matches |-> {"s1"}, numeric |-> {"temp", "hum"}]>>] :
        d \in FrameDevices, ts \in {clock, clock - ClockStep} \cap Nat}

NextRange ==
    \/ \E d \in FrameDevices : AddSubscription(d)
    \/ \E message \in RangeMessages(now) : TelemetryShown(message)
    \/ \E value \in TimeWindows \cup {"custom"} : handleTimeWindowChange(value)
    \/ \E open \in BOOLEAN : setShowCustomTimeDialog(open)
    \/ \E start, end \in RangeInputs : ApplyCustomTimeRange(start, end)
    \/ Tick

\* hubStore.selectedDevices, in the Set's insertion order
Selections == {subs \in Batches : \A i, j \in 1..Len(subs) : subs[i] = subs[j] => i = j}

isSubscribed(subs, hubId, portId) ==
    \E i \in 1..Len(subs) : subs[i].hubId = hubId /\ subs[i].portId = portId

\* The loop of handleSubscribeSelected on the service: one subscribe(hubId, portId) per device
RECURSIVE subscribeEach(_, _, _)
subscribeEach(c, subs, stored) ==
    IF subs = <<>> THEN c
    ELSE subscribeEach(subscribe(c, <<Head(subs)>>, stored, TRUE), Tail(subs), stored)

\* The loop of handleSubscribeSelected on the store: one addSubscription per device
RECURSIVE addEach(_, _)
addEach(active, subs) ==
    IF subs = <<>> THEN active
    ELSE addEach(addSubscription(active, Head(subs)), Tail(subs))

\* DeviceManager: the Subscribe button, with the devices of selection ticked
handleSubscribeSelected(selection) ==
    LET fresh == SelectSeq(selection, LAMBDA s : ~isSubscribed(activeSubscriptions, s.hubId, s.portId))
        d == subscribeEach(Begin(svc), fresh, authToken)
    IN /\ ~d.exhausted
       /\ svc' = d
       /\ activeSubscriptions' = addEach(activeSubscriptions, fresh)
       /\ shutdown' = (shutdown /\ fresh = <<>>)
       /\ queued' = IF IsOpen(svc) THEN queued ELSE queued \cup Range(fresh)
       /\ repeated' = IF IsOpen(svc) THEN repeated
                      ELSE repeated \/ Cardinality(queued \cup Range(fresh)) < Cardinality(queued) + Len(fresh)
       /\ retry' = Retried(svc, d)
       /\ gaveUp' = (gaveUp /\ (fresh = <<>> \/ IsOpen(svc) \/ (svc.token = NoToken /\ authToken = NoToken)))
       /\ withdrawn' = IF IsOpen(svc) THEN withdrawn ELSE withdrawn \ Range(fresh)
       /\ lastEvent' = <<>>
       /\ UNCHANGED <<authToken, mergedCharts, shiftPressed, mergeClock, groupsJoined, rangeVars,
                      taskVars, storeVars, msgVars, lastFrame, chartQuery, parserCall, now>>
       /\ PageEffect(chartOrder)

\* webSocketService.unsubscribe(hubId, portId), then removeSubscription(hubId, portId)
DropSubscription(pair) ==
    /\ svc' = unsubscribe(Begin(svc), <<pair>>)
    /\ activeSubscriptions' = removeSubscription(activeSubscriptions, pair.hubId, pair.portId)
    /\ queued' = IF IsOpen(svc) THEN queued ELSE queued \ {pair}
    /\ withdrawn' = IF IsOpen(svc) THEN withdrawn
                    ELSE withdrawn \cup ({pair} \cap Range(svc.pendingSubscriptions))
    /\ UNCHANGED <<authToken, shutdown, repeated, retry, gaveUp, mergedCharts, shiftPressed,
                   mergeClock, groupsJoined, rangeVars, taskVars, storeVars, msgVars,
                   lastFrame, chartQuery, parserCall, now>>
    /\ PageEffect(chartOrder)

\* DeviceManager: the Unsubscribe button of a subscribed device
handleUnsubscribe(pair) ==
    /\ isSubscribed(activeSubscriptions, pair.hubId, pair.portId)
    /\ DropSubscription(pair)
    /\ lastEvent' = <<>>

DeviceEvents == {"connected", "disconnected"}

\* MainLayout's handler on a device_event message, received on a socket that is open
DeviceEvent(event, pair) ==
    /\ \E s \in SocketIds : svc.sock[s] = "open"
    /\ lastEvent' = <<[event |-> event, hubId |-> pair.hubId, portId |-> pair.portId]>>
    /\ IF event = "disconnected" /\ isSubscribed(activeSubscriptions, pair.hubId, pair.portId)
       THEN DropSubscription(pair)
       ELSE /\ svc' = Begin(svc)
            /\ UNCHANGED <<authToken, shutdown, queued, repeated, retry, withdrawn, gaveUp,
                           taskVars, storeVars, viewVars, msgVars, lastFrame, chartQuery,
                           parserCall, now>>

\* A session of the page: log in, subscribe and unsubscribe devices, while
\* sockets open, close and are retried and the hubs report their devices
NextSession ==
    \/ \E tok \in Tokens : Login(tok, TRUE)
    \/ \E selection \in Selections : handleSubscribeSelected(selection)
    \/ \E pair \in DevicePairs : handleUnsubscribe(pair)
    \/ \E event \in DeviceEvents, pair \in DevicePairs : DeviceEvent(event, pair)
    \/ \E s \in SocketIds : SocketOpen(s)
    \/ \E s \in SocketIds : SocketClose(s)
    \/ \E t \in TimerIds : ReconnectTimer(t, TRUE)

----------------------------------------------------------------------------
(* Inbound messages and their handlers.  A payload is taken as what
   JSON.parse makes of it: a message, or an exception. *)

Handlers == 1..MaxHandlers

Payloads ==
    {[wellFormed |-> FALSE, type |-> "garbage"],
     [wellFormed |-> TRUE, type |-> "telemetry_stream"]}

\* JSON.parse(event.data): <<>> when it throws
ParsePayload(raw) == IF raw.wellFormed THEN <<[type |-> raw.type]>> ELSE <<>>

NoCalls == [h \in Handlers |-> <<>>]

\* Set.add and Set.delete on messageHandlers, kept in insertion order
AddHandler(handlers, h) == IF h \in Range(handlers) THEN handlers ELSE Append(handlers, h)
DeleteHandler(handlers, h) == SelectSeq(handlers, LAMBDA x : x # h)

\* A forEach with no try around the handler: the first throw ends the loop
RECURSIVE handleMessageNoCatch(_, _, _, _)
handleMessageNoCatch(handlers, message, throwing, got) ==
    IF handlers = <<>> THEN got
    ELSE LET h == Head(handlers)
             called == [got EXCEPT ![h] = Append(@, message)]
         IN IF h \in throwing THEN called
            ELSE handleMessageNoCatch(Tail(handlers), message, throwing, called)

\* handleMessage: what every handler has been called with when the forEach ends;
\* throwing is the set of handlers that throw on this message
RECURSIVE handleMessage(_, _, _, _)
handleMessage(handlers, message, throwing, got) ==
    IF handlers = <<>> THEN got
    ELSE handleMessage(Tail(handlers), message, throwing,
                       [got EXCEPT ![Head(handlers)] = Append(@, message)])

\* An onmessage that hands the payload to the handlers without parsing it
onmessageUnparsed(handlers, raw, throwing) ==
    handleMessage(handlers, [type |-> raw.type], throwing, NoCalls)

\* ws.onmessage
onmessage(handlers, raw, throwing) ==
    IF ParsePayload(raw) = <<>> THEN NoCalls
    ELSE handleMessage(handlers, ParsePayload(raw)[1], throwing, NoCalls)

\* webSocketService.onMessage(handler): the handler is added, its unsubscribe function exists
OnMessage(h) ==
    /\ messageHandlers' = AddHandler(messageHandlers, h)
    /\ unsubscribers' = unsubscribers \cup {h}
    /\ calls' = NoCalls
    /\ thrown' = {}
    /\ UNCHANGED <<inbound, taskVars, connVars, storeVars, viewVars, callVars, now>>

\* The function onMessage returned for h is called
UnsubscribeHandler(h) ==
    /\ h \in unsubscribers
    /\ messageHandlers' = DeleteHandler(messageHandlers, h)
    /\ calls' = NoCalls
    /\ thrown' = {}
    /\ UNCHANGED <<unsubscribers, inbound, taskVars, connVars, storeVars, viewVars, callVars, now>>

\* A message event on socket s; throwing are the registered handlers that throw on it
SocketMessage(s, raw, throwing) ==
    /\ svc.sock[s] = "open"
    /\ throwing \subseteq Range(messageHandlers)
    /\ calls' = onmessage(messageHandlers, raw, throwing)
    /\ thrown' = {h \in throwing : calls'[h] # <<>>}
    /\ inbound' = IF ~raw.wellFormed THEN "dropped"
                  ELSE IF inbound = "dropped" THEN "delivered after a drop"
                  ELSE "delivered"
    /\ UNCHANGED <<messageHandlers, unsubscribers, taskVars, connVars, storeVars, viewVars, callVars, now>>

NextMessages ==
    \/ \E tok \in Tokens : Login(tok, TRUE)
    \/ \E s \in SocketIds : SocketOpen(s)
    \/ \E h \in Handlers : OnMessage(h)
    \/ \E h \in Handlers : UnsubscribeHandler(h)
    \/ \E s \in SocketIds, raw \in Payloads, throwing \in SUBSET Handlers :
          SocketMessage(s, raw, throwing)

----------------------------------------------------------------------------
Init ==
    /\ messageHandlers = <<>>
    /\ unsubscribers = {}
    /\ calls = NoCalls
    /\ thrown = {}
    /\ inbound = "none"
    /\ activeSubscriptions = <<>>
    /\ chartOrder = <<>>
    /\ mergedCharts = <<>>
    /\ shiftPressed = FALSE
    /\ lastSize = 0
    /\ mergeClock = 0
    /\ groupsJoined = FALSE
    /\ timeWindow = "1h"
    /\ customTimeRange = <<>>
    /\ showCustomTimeDialog = FALSE
    /\ devices = [k \in DeviceKeys |-> <<>>]
    /\ detectedSensors = [k \in DeviceKeys |-> Undefined]
    /\ svc = NewService
    /\ authToken = NoToken
    /\ shutdown = FALSE
    /\ queued = {}
    /\ repeated = FALSE
    /\ retry = [n |-> 0, delay |-> 0]
    /\ gaveUp = FALSE
    /\ withdrawn = {}
    /\ tasks = <<>>
    /\ inflight = <<>>
    /\ taskTimers = <<>>
    /\ nextTaskId = 1
    /\ cmdResult = NoResult
    /\ forced = [t \in 1..MaxTasks |-> 0]
    /\ echoes = 0
    /\ lastEcho = <<>>
    /\ swept = <<>>
    /\ lastFrame = <<>>
    /\ chartQuery = <<>>
    /\ parserCall = <<>>
    /\ lastEvent = <<>>
    /\ now = 0

NextTasks ==
    \/ \E hub \in CommandHubs, port \in Ports : ExecuteCommand(hub, port)
    \/ \E i \in 1..MaxTasks, status \in TaskStatuses : CommandAccepted(i, status)
    \/ \E i \in 1..MaxTasks : CommandRejected(i)
    \/ \E i \in 1..MaxTasks : TaskTimeout(i)
    \/ \E taskId \in 1..MaxTasks, echo \in TaskEchoes : TaskStatusEcho(taskId, echo)
    \/ \E taskId \in 1..MaxTasks : RemoveTask(taskId)
    \/ CleanupCompletedTasks

\* The tasks of one port, their status messages and timeouts, as time passes
NextLifecycle ==
    \/ \E hub \in CommandHubs : ExecuteCommand(hub, "p1")
    \/ \E i \in 1..MaxTasks, status \in TaskStatuses : CommandAccepted(i, status)
    \/ \E i \in 1..MaxTasks : TaskTimeout(i)
    \/ \E taskId \in 1..MaxTasks, echo \in TaskEchoes : Echo(taskId, echo, MaxUpdates)
    \/ Tick

SpecTasks == Init /\ [][NextTasks]_vars

SpecLifecycle == Init /\ [][NextLifecycle]_vars

SpecConn == Init /\ [][NextConn]_vars

SpecQueue == Init /\ [][NextQueue]_vars

SpecTelemetry == Init /\ [][NextTelemetry]_vars

SpecCharts == Init /\ [][NextCharts]_vars

SpecMessages == Init /\ [][NextMessages]_vars

SpecGroups == Init /\ [][NextGroups]_vars

SpecTerminal == Init /\ [][NextTerminal]_vars

SpecFrames == Init /\ [][NextFrames]_vars

SpecWindows == Init /\ [][NextWindows]_vars

NextParser ==
    \/ \E lines \in SeqsUpTo(ParserLines, MaxParseLines), previousSensor \in PreviousSensors :
            ParseTelemetryData(lines, previousSensor)
    \/ \E sensorMappings \in Registries, line \in {Texts[k] : k \in DOMAIN Texts} :
            DetectSensorType(sensorMappings, line)
    \/ \E line \in {Texts[k] : k \in DOMAIN Texts}, sensor \in {Mapping[k] : k \in DOMAIN Mapping} :
            ParseSensorLine(line, sensor)
    \/ ParserReturn

SpecParser == Init /\ [][NextParser]_vars

SpecRange == Init /\ [][NextRange]_vars

SpecSession == Init /\ [][NextSession]_vars

----------------------------------------------------------------------------
(* Task Tracker: properties *)

ActiveTasksOf(ts, portId) ==
    {i \in 1..Len(ts) : ts[i].port_id = portId /\ ts[i].status \in {"pending", "running"}}

\* C1: in every reachable state, every port_id has at most one task whose status
\* is pending or running.
C1_AtMostOneActivePerPort ==
    \A p \in Ports : Cardinality(ActiveTasksOf(tasks, p)) <= 1

TrackedAndActive(ts, taskId) ==
    \E i \in 1..Len(ts) :
        ts[i].task_id = taskId /\ ts[i].status \in {"pending", "running"}

TimersOf(taskId) == {i \in 1..Len(taskTimers) : taskTimers[i] = taskId}

\* C7: a timeout callback that finds its task still pending or running sets it to
\* failed with the timeout error; a callback that finds the task completed, failed
\* or no longer tracked changes nothing; every task has at most one timer and is
\* forced to failed at most once.
C7_TimeoutFailsOnce ==
    /\ [](\A t \in 1..MaxTasks : forced[t] <= 1 /\ Cardinality(TimersOf(t)) <= 1)
    /\ [][\A i \in 1..Len(taskTimers) :
            taskTimers' = RemoveAt(taskTimers, i) =>
                LET taskId == taskTimers[i] IN
                IF TrackedAndActive(tasks, taskId)
                THEN /\ \A j \in 1..Len(tasks') :
                            tasks'[j].task_id = taskId =>
                                /\ tasks'[j].status = "failed"
                                /\ tasks'[j].error = TimeoutError
                     /\ Len(tasks') = Len(tasks)
                     /\ forced'[taskId] = forced[taskId] + 1
                ELSE tasks' = tasks /\ forced' = forced]_vars

C7_Witness ==
    \E i \in 1..Len(tasks) :
        /\ tasks[i].status = "failed"
        /\ tasks[i].error = TimeoutError
        /\ forced[tasks[i].task_id] = 1
        /\ TimersOf(tasks[i].task_id) = {}

\* The pairs of a task before a step and the same task after it
SameTask == {<<i, j>> \in (1..Len(tasks)) \X (1..Len(tasks')) : tasks'[j].task_id = tasks[i].task_id}

Rank(status) == CASE status = "pending" -> 0 [] status = "running" -> 1 [] OTHER -> 2

\* C15: a task's status only moves forward through pending, running, then
\* completed or failed: no step takes a task back, and no step changes the
\* status of a task that is completed or failed.
C15_ForwardOnly ==
    [][\A p \in SameTask :
          /\ Rank(tasks'[p[2]].status) >= Rank(tasks[p[1]].status)
          /\ tasks[p[1]].status \in {"completed", "failed"} =>
                tasks'[p[2]].status = tasks[p[1]].status]_vars

\* C16: a task_status message applied again straight after it was applied,
\* at any later time, leaves the task list as the first application left it,
\* started_at and completed_at included.
C16_UpdateIdempotent ==
    [][(/\ echoes' = echoes + 1
        /\ lastEcho # <<>>
        /\ lastEcho'[1].task_id = lastEcho[1].task_id
        /\ lastEcho'[1].echo = lastEcho[1].echo) => tasks' = tasks]_vars

\* A running update was applied twice, the second time later than the stamp it left
C16_Witness ==
    /\ lastEcho # <<>>
    /\ lastEcho[1].again
    /\ \E i \in 1..Len(tasks) :
          /\ tasks[i].task_id = lastEcho[1].task_id
          /\ tasks[i].status = "running"
          /\ tasks[i].started_at # NoStamp
          /\ tasks[i].started_at < now

\* started_at is stamped by the update that makes an unstamped task running
\* and by no other, completed_at by the update that makes an unstamped task
\* completed or failed and by no other
C17_StampedAtFirst ==
    [][\A p \in SameTask :
          LET old == tasks[p[1]]
              new == tasks'[p[2]]
          IN /\ old.started_at = NoStamp =>
                   new.started_at = (IF new # old /\ new.status = "running" THEN now ELSE NoStamp)
             /\ old.completed_at = NoStamp =>
                   new.completed_at = (IF new # old /\ new.status \in {"completed", "failed"}
                                       THEN now ELSE NoStamp)]_vars

\* a stamp that is set stays as it is
C17_StampsKept ==
    [][\A p \in SameTask :
          /\ tasks[p[1]].started_at # NoStamp => tasks'[p[2]].started_at = tasks[p[1]].started_at
          /\ tasks[p[1]].completed_at # NoStamp =>
                tasks'[p[2]].completed_at = tasks[p[1]].completed_at]_vars

\* C17: started_at is set at the first update that puts a task in running and
\* completed_at at the first update that puts it in completed or failed; a
\* stamp that is set is never changed; and a task that is completed or failed
\* has completed_at set.
C17_Stamps ==
    /\ C17_StampedAtFirst
    /\ C17_StampsKept
    /\ [](\A i \in 1..Len(tasks) :
            tasks[i].status \in {"completed", "failed"} => tasks[i].completed_at # NoStamp)

\* C8: executeCommand for a port that has a pending or running task resolves with
\* success = false and the id of that task, issues no request, schedules no
\* timeout and leaves the task list unchanged.
C8_ConflictRefused ==
    [][\A hub \in CommandHubs, port \in Ports :
            (ExecuteCommand(hub, port) /\ ActiveTasksOf(tasks, port) # {}) =>
                /\ cmdResult'.success = FALSE
                /\ cmdResult'.error = InProgressError
                /\ \E i \in ActiveTasksOf(tasks, port) :
                        /\ cmdResult'.taskId = tasks[i].task_id
                        /\ \A j \in ActiveTasksOf(tasks, port) : i <= j
                /\ inflight' = inflight
                /\ taskTimers' = taskTimers
                /\ tasks' = tasks]_vars

C8_Witness ==
    /\ cmdResult.success = FALSE
    /\ cmdResult.error = InProgressError
    /\ \E i \in 1..Len(tasks) :
            tasks[i].task_id = cmdResult.taskId /\ IsActive(tasks[i])

\* The calls that leave their await in this step
Resolved == {i \in 1..Len(inflight) : inflight' = RemoveAt(inflight, i)}

C22_OneTaskOneTimer ==
    [][nextTaskId' = nextTaskId + 1 =>
          /\ cmdResult'.success = TRUE
          /\ Len(tasks') = Len(tasks) + 1
          /\ SubSeq(tasks', 1, Len(tasks)) = tasks
          /\ \E i \in Resolved :
                /\ tasks'[Len(tasks')].hub_id = inflight[i].hub
                /\ tasks'[Len(tasks')].port_id = inflight[i].port
          /\ tasks'[Len(tasks')].task_id = cmdResult'.taskId
          /\ \A j \in 1..Len(tasks) : tasks[j].task_id # cmdResult'.taskId
          /\ taskTimers' = Append(taskTimers, cmdResult'.taskId)
          /\ \A j \in 1..Len(taskTimers) : taskTimers[j] # cmdResult'.taskId]_vars

\* C22: after a successful executeCommand exactly one new task is tracked,
\* for the given hub and port, one timeout timer is started for it, and the
\* new task's status is pending.
C22_TrackedPending ==
    /\ C22_OneTaskOneTimer
    /\ [][nextTaskId' = nextTaskId + 1 => tasks'[Len(tasks')].status = "pending"]_vars

\* C23: cleanupCompletedTasks leaves exactly the pending and running tasks,
\* each as it was and in the order they had; and a step after which a task
\* that was pending or running is no longer in the list is a removeTask call
\* for that task.
C23_OnlyExplicitRemoval ==
    /\ [][swept' # <<>> =>
            LET active == {i \in 1..Len(tasks) : tasks[i].status \in {"pending", "running"}} IN
            /\ Len(tasks') = Cardinality(active)
            /\ \A i \in active : tasks'[Cardinality({j \in active : j <= i})] = tasks[i]]_vars
    /\ [][\A i \in 1..Len(tasks) :
            (/\ tasks[i].status \in {"pending", "running"}
             /\ \A j \in 1..Len(tasks') : tasks'[j].task_id # tasks[i].task_id) =>
                /\ swept' = <<>>
                /\ RemoveTask(tasks[i].task_id)]_vars

\* A sweep took a finished task out and left an active one
C23_Witness ==
    /\ swept # <<>>
    /\ swept[1].removed >= 1
    /\ swept[1].kept >= 1
    /\ \E i \in 1..Len(tasks) : IsActive(tasks[i])

\* C36: a task whose timeout callback has forced it to failed is not pending or
\* running in any later state, so getActiveTaskForPort does not return it.
C36_TimedOutStaysInactive ==
    \A i \in 1..Len(tasks) :
        forced[tasks[i].task_id] > 0 =>
            /\ ~IsActive(tasks[i])
            /\ getActiveTaskForPort(tasks, tasks[i].port_id) # <<tasks[i]>>

----------------------------------------------------------------------------
(* Connection Manager properties *)

SocketsCreated == {s \in SocketIds : svc.sock[s] = "free" /\ svc'.sock[s] = "connecting"}
TimersCreated == {t \in TimerIds : svc.timers[t] = 0 /\ svc'.timers[t] # 0}

C3_AtMostOneLiveSocket ==
    Cardinality({s \in SocketIds : svc.sock[s] \in {"connecting", "open"}}) <= 1

C5_QueueHoldsEachPairOnce ==
    LET queue == svc.pendingSubscriptions IN
    /\ \A i, j \in 1..Len(queue) :
          (queue[i].hubId = queue[j].hubId /\ queue[i].portId = queue[j].portId) => i = j
    /\ {queue[i] : i \in 1..Len(queue)} = queued

\* Both pairs are queued, and one of them was asked for more than once
C5_Witness ==
    /\ repeated
    /\ Len(svc.pendingSubscriptions) = 2
    /\ svc.ws = 0 \/ svc.sock[svc.ws] # "open"

\* C10: when a socket opens while the pending queue is not empty, exactly one
\* message is sent, it is a subscribe on that socket with every queued intent
\* in queue order, and the queue is empty afterwards; when the queue is empty,
\* nothing is sent.
C10_FlushOnOpen ==
    [][\A s \in SocketIds :
          (svc.sock[s] = "connecting" /\ svc'.sock[s] = "open") =>
              IF svc.pendingSubscriptions # <<>>
              THEN /\ svc'.sent = <<[sock |-> s, type |-> "subscribe",
                                     subscriptions |-> svc.pendingSubscriptions]>>
                   /\ svc'.pendingSubscriptions = <<>>
              ELSE svc'.sent = <<>>]_vars

\* A socket opens in this step
OpenedNow == {s \in SocketIds : svc.sock[s] = "connecting" /\ svc'.sock[s] = "open"}

\* C18: the attempt counter becomes 0 in the step in which a socket opens and
\* in no other: connect, disconnect, subscribe, unsubscribe, a close, an error
\* and a reconnect timer leave it as it is or increase it.
C18_OnlyOpenResets ==
    [][IF OpenedNow # {} THEN svc'.reconnectAttempts = 0
       ELSE svc'.reconnectAttempts >= svc.reconnectAttempts]_vars

\* A socket is open and the counter is 0 while a retry that was counted is
\* still outstanding
C18_Witness ==
    /\ svc.reconnectAttempts = 0
    /\ \E s \in SocketIds : svc.sock[s] = "open"
    /\ \E t \in TimerIds : svc.timers[t] # 0

\* C19: unsubscribe while the socket is not open takes out of the pending
\* queue exactly the intents that match one of its pairs, keeps the others in
\* their order, and hands nothing to the socket; what it took out is in no
\* subscribe message sent when a socket opens next, unless it was asked for again.
C19_UnsubscribeWhileClosed ==
    /\ [][(~IsOpen(svc) /\ retry' = retry /\ svc'.token = svc.token /\ OpenedNow = {}) =>
            \A subs \in Batches :
                Unsubscribe(subs) =>
                    /\ svc'.pendingSubscriptions =
                          SelectSeq(svc.pendingSubscriptions, LAMBDA q : q \notin Range(subs))
                    /\ svc'.sent = <<>>
                    /\ svc'.sock = svc.sock /\ svc'.ws = svc.ws]_vars
    /\ [][OpenedNow # {} =>
            \A i \in 1..Len(svc'.sent) :
                Range(svc'.sent[i].subscriptions) \cap withdrawn = {}]_vars

\* An intent was taken out of the queue and another one stayed
C19_Witness ==
    /\ withdrawn # {}
    /\ svc.pendingSubscriptions # <<>>
    /\ ~IsOpen(svc)

\* A socket leaves the service in this step: its close event is handled
ClosedNow == {s \in SocketIds : svc.sock[s] # "free" /\ svc'.sock[s] = "free"}

(* C12: the attempt counter never exceeds 10; a close that is not intended
   and comes after ten retries in a row with no open in between schedules no
   retry; and from such a close on, until a caller connects again, the
   service stays down: no socket is created and no retry is scheduled. *)
C12_GivesUpAfterTen ==
    /\ [](svc.reconnectAttempts <= 10)
    /\ [][(ClosedNow # {} /\ ~svc.isIntentionallyClosed /\ retry.n >= 10)
             => TimersCreated = {}]_vars
    /\ [][(gaveUp /\ gaveUp') => (SocketsCreated = {} /\ TimersCreated = {})]_vars

\* The pairs of the subscribe messages the step handed to an open socket
SubscribedNow ==
    UNION {Range(svc'.sent[i].subscriptions) :
              i \in {j \in 1..Len(svc'.sent) : svc'.sent[j].type = "subscribe"}}

\* C35: an intent that is in the pending queue before a step and not after it
\* is in a subscribe message that the step transmitted on an open socket, or
\* was taken out by an unsubscribe for its pair.
C35_NoIntentLost ==
    [][\A p \in Range(svc.pendingSubscriptions) :
          p \notin Range(svc'.pendingSubscriptions) => (p \in SubscribedNow \/ p \in withdrawn')]_vars

\* C37: at most one reconnect timer is outstanding, and when one is
\* outstanding the handle the service stores is that timer's, so that
\* clearTimeout of the handle leaves no timer outstanding.
C37_OneReconnectTimer ==
    LET outstanding == {t \in TimerIds : svc.timers[t] # 0} IN
    /\ Cardinality(outstanding) <= 1
    /\ \A t \in outstanding : svc.reconnectTimeout = t

----------------------------------------------------------------------------
(* Telemetry Store properties *)

StalePoints ==
    {<<k, i, j>> \in DeviceKeys \X (1..4) \X (1..MaxPoints) :
        /\ devices[k] # <<>>
        /\ i <= Len(devices[k][1].chartData.fields)
        /\ j <= Len(devices[k][1].chartData.fields[i].data)
        /\ now - devices[k][1].chartData.fields[i].data[j].timestamp >= 3600000}

\* C6: right after any processTelemetry call, no field series of any device
\* in the store holds a point whose age is one hour or more.
C6_NoStalePointAfterIngestion ==
    [][(\E message \in Messages(now) : ProcessTelemetry(message)) => StalePoints' = {}]_vars

\* C14: the raw-text buffer of every device holds at most 1000 lines after
\* every processTelemetry call, the first one for the device included.
C14_RawBufferCapped ==
    \A k \in DeviceKeys : devices[k] # <<>> => devices[k][1].rawLines <= 1000

\* The mapping a device's state holds, <<>> when it holds none or there is no state
MappingOf(devs, k) == IF devs[k] = <<>> THEN <<>> ELSE devs[k][1].sensorMapping

\* C24: a device state that holds a detected mapping holds the same mapping
\* after every processTelemetry call, whatever the frame; a name in
\* detectedSensors is never taken out; and a step after which a device's
\* mapping, or its name in detectedSensors, is another than before is a frame
\* of that device with a line which that mapping matches.
C24_MappingSticky ==
    [][\A k \in DeviceKeys :
          /\ (MappingOf(devices, k) # <<>> /\ devices'[k] # <<>>) =>
                MappingOf(devices', k) = MappingOf(devices, k)
          /\ detectedSensors[k] # Undefined => detectedSensors'[k] # Undefined
          /\ (MappingOf(devices', k) # <<>> /\ MappingOf(devices', k) # MappingOf(devices, k)) =>
                /\ lastFrame' # <<>>
                /\ lastFrame'[1].key = k
                /\ MappingOf(devices', k)[1].id \in lastFrame'[1].matches
          /\ detectedSensors'[k] # detectedSensors[k] =>
                /\ lastFrame' # <<>>
                /\ lastFrame'[1].key = k
                /\ \E i \in 1..Len(SensorMappings) :
                      /\ SensorMappings[i].name = detectedSensors'[k]
                      /\ SensorMappings[i].id \in lastFrame'[1].matches]_vars

\* A device that held a mapping got a frame none of whose lines its mapping
\* matches, and holds the mapping still
C24_Witness ==
    /\ lastFrame # <<>>
    /\ lastFrame[1].previous # <<>>
    /\ lastFrame[1].previous[1].id \notin lastFrame[1].matches
    /\ MappingOf(devices, lastFrame[1].key) = lastFrame[1].previous

\* Lines of the terminal text a payload adds: the empty text is one line
AddedLines(data) ==
    LET n == Cardinality({i \in 1..Len(data.text) : data.text[i] # BlankLine})
    IN IF ~data.valid \/ n = 0 THEN 1 ELSE n

Threshold(window) ==
    (CASE window = "5m" -> 5 [] window = "15m" -> 15 [] window = "30m" -> 30 [] window = "1h" -> 60)
        * 60 * 1000

\* The places in a series of the points younger than the window
Younger(data, window, clock) ==
    {j \in 1..Len(data) : clock - data[j].timestamp < Threshold(window)}

\* C26: what getChartData returned for a standard window is, for an unknown
\* device, the empty list, and otherwise one series per stored series, in
\* stored order and under its name, holding exactly the stored points whose
\* age is below the window's threshold, in stored order; and the call leaves
\* the store as it was.
C26_WindowFilter ==
    [][(chartQuery' # <<>> /\ chartQuery' # chartQuery) =>
          LET q == chartQuery'[1]
              dev == devices[deviceKey(q.hubId, q.portId)]
          IN /\ q.window \in TimeWindows
             /\ IF dev = <<>> THEN q.result = <<>>
                ELSE /\ Len(q.result) = Len(dev[1].chartData.fields)
                     /\ \A i \in 1..Len(q.result) :
                           LET stored == dev[1].chartData.fields[i].data
                               keep == Younger(stored, q.window, now)
                           IN /\ q.result[i].fieldName = dev[1].chartData.fields[i].fieldName
                              /\ Len(q.result[i].data) = Cardinality(keep)
                              /\ \A j \in keep :
                                    q.result[i].data[Cardinality({m \in keep : m <= j})] = stored[j]
             /\ devices' = devices
             /\ detectedSensors' = detectedSensors]_vars

\* A query with the 15 minute window returned some of a series' points and
\* left others out
C26_Witness ==
    /\ chartQuery # <<>>
    /\ chartQuery[1].window = "15m"
    /\ devices[deviceKey(chartQuery[1].hubId, chartQuery[1].portId)] # <<>>
    /\ \E i \in 1..Len(chartQuery[1].result) :
          /\ Len(chartQuery[1].result[i].data) > 0
          /\ Len(chartQuery[1].result[i].data) <
                Len(devices[deviceKey(chartQuery[1].hubId, chartQuery[1].portId)][1].chartData.fields[i].data)

\* C31: in every field series of every device the timestamps of the points
\* do not decrease from one point to the next.
C31_TimestampsNonDecreasing ==
    \A k \in DeviceKeys :
        devices[k] # <<>> =>
            \A i \in 1..Len(devices[k][1].chartData.fields) :
                LET data == devices[k][1].chartData.fields[i].data
                IN \A j \in 1..(Len(data) - 1) : data[j].timestamp <= data[j + 1].timestamp

\* C32: a device state that holds a detected mapping has, as the sensorName
\* of its chart data, that mapping's display name.
C32_SensorNameFollowsMapping ==
    \A k \in DeviceKeys :
        (devices[k] # <<>> /\ devices[k][1].sensorMapping # <<>>) =>
            devices[k][1].chartData.sensorName = devices[k][1].sensorMapping[1].name

\* The names of the fields the parser returned for a frame
ParsedNames(parsed) ==
    UNION {{parsed[i].fields[j].name : j \in 1..Len(parsed[i].fields)} : i \in 1..Len(parsed)}

\* C38: processTelemetry for a key leaves the entry of every other key in the
\* devices map and in the detectedSensors map as it was, and within the
\* ingested device every series whose field the frame did not yield is as it
\* was, in its place, and every new series is of a field the frame yielded.
C38_OnlyOwnKey ==
    [][\A message \in Messages(now) :
          ProcessTelemetry(message) =>
              LET key == deviceKey(message.hubId, message.portId)
                  old == devices[key]
                  new == devices'[key][1].chartData.fields
                  was == IF old = <<>> THEN <<>> ELSE old[1].chartData.fields
                  names == ParsedNames(parseTelemetryData(message.lines,
                               IF old = <<>> THEN <<>> ELSE old[1].sensorMapping).parsed)
              IN /\ \A k \in DeviceKeys \ {key} :
                       /\ devices'[k] = devices[k]
                       /\ detectedSensors'[k] = detectedSensors[k]
                 /\ Len(new) >= Len(was)
                 /\ \A i \in 1..Len(was) : was[i].fieldName \notin names => new[i] = was[i]
                 /\ \A i \in (Len(was) + 1)..Len(new) : new[i].fieldName \in names]_vars

\* Two devices are stored; one holds a series whose only point is an hour old,
\* left alone by a later frame that pruned another series of the same device
C38_Witness ==
    \E k \in DeviceKeys : \E other \in DeviceKeys \ {k} :
        /\ devices[k] # <<>>
        /\ devices[other] # <<>>
        /\ \E i, j \in 1..Len(devices[k][1].chartData.fields) :
              LET stale == devices[k][1].chartData.fields[i].data
                  fresh == devices[k][1].chartData.fields[j].data
              IN /\ \E p \in 1..Len(stale) : now - stale[p].timestamp >= ONE_HOUR_MS
                 /\ Len(fresh) > 0
                 /\ \A p \in 1..Len(fresh) : now - fresh[p].timestamp < ONE_HOUR_MS

\* The points of series i of a query result
PointsOf(result, i) == {result[i].data[j] : j \in 1..Len(result[i].data)}

\* What the narrower window returns is within what the wider one returns,
\* series by series, under the same field names
Nested(narrow, wide) ==
    /\ Len(narrow) = Len(wide)
    /\ \A i \in 1..Len(narrow) :
          /\ narrow[i].fieldName = wide[i].fieldName
          /\ PointsOf(narrow, i) \subseteq PointsOf(wide, i)
          /\ Len(narrow[i].data) <= Len(wide[i].data)

\* C40: for one device at one instant, what getChartData returns for 5m is
\* within what it returns for 15m, that within 30m, that within 1h, and that
\* within the device's stored series, with the same fields for all four.
C40_WindowsNested ==
    \A d \in QueryDevices :
        LET q(window) == getChartData(devices, d.hubId, d.portId, window, now)
            dev == devices[deviceKey(d.hubId, d.portId)]
        IN /\ Nested(q("5m"), q("15m"))
           /\ Nested(q("15m"), q("30m"))
           /\ Nested(q("30m"), q("1h"))
           /\ Nested(q("1h"), IF dev = <<>> THEN <<>> ELSE dev[1].chartData.fields)

\* A device for which 5m returns fewer points than 15m and 30m fewer than 1h
C40_Witness ==
    \E d \in QueryDevices :
        LET q(window) == getChartData(devices, d.hubId, d.portId, window, now)
        IN /\ Len(q("1h")) > 0
           /\ Len(q("5m")[1].data) < Len(q("15m")[1].data)
           /\ Len(q("30m")[1].data) < Len(q("1h")[1].data)

----------------------------------------------------------------------------
(* Sensor parser properties *)

\* The lines each mapping's pattern matches, as the regular expression with
\* the 'i' flag matches them anywhere in the line; the broken pattern is no
\* regular expression and matches nothing
MatchingTexts(id) ==
    CASE id = "temp" -> {Texts.temp, Texts.tempUpper, Texts.tempDot, Texts.tempVersion, Texts.climate}
      [] id = "climate" -> {Texts.climate}
      [] id = "csv" -> {Texts.csv}
      [] id = "word" -> {Texts.word, Texts.wordNum}
      [] id = "json" -> {Texts.json, Texts.jsonLabel, Texts.jsonCut, Texts.jsonIndex,
                         Texts.jsonTwice, Texts.jsonEmpty}
      [] id = "broken" -> {}

\* C27: detectSensorType returns the first mapping, in the order of
\* registration, whose pattern matches the line, whatever stands before it: a
\* mapping that does not match, or one whose pattern is invalid; and it
\* returns none when no registered mapping matches.
C27_FirstMatchWins ==
    (parserCall # <<>> /\ parserCall[1].fn = "detectSensorType") =>
        LET c == parserCall[1]
            hits == {i \in 1..Len(c.sensorMappings) :
                        c.line \in MatchingTexts(c.sensorMappings[i].id)}
        IN IF hits = {} THEN c.result = <<>>
           ELSE c.result = <<c.sensorMappings[CHOOSE i \in hits : \A j \in hits : i <= j]>>

\* The mapping with the invalid pattern is registered first, then two that
\* both match the line: the earlier of the two is returned
C27_Witness ==
    /\ parserCall # <<>>
    /\ parserCall[1].fn = "detectSensorType"
    /\ parserCall[1].sensorMappings = <<Mapping.broken, Mapping.climate, Mapping.temp>>
    /\ parserCall[1].line = Texts.climate
    /\ parserCall[1].result = <<Mapping.climate>>

\* What the groups of a mapping's pattern capture on a line it matches, the
\* first group first
CapturesOn(id, line) ==
    CASE id = "temp" /\ line = Texts.temp -> <<"23.5">>
      [] id = "temp" /\ line = Texts.tempUpper -> <<"7">>
      [] id = "temp" /\ line = Texts.tempDot -> <<".">>
      [] id = "temp" /\ line = Texts.tempVersion -> <<"1.2.3">>
      [] id = "temp" /\ line = Texts.climate -> <<"23.5">>
      [] id = "climate" /\ line = Texts.climate -> <<"23.5", "40">>
      [] id = "csv" /\ line = Texts.csv -> <<"1.5", "2">>
      [] id = "word" /\ line = Texts.word -> <<"abc">>
      [] id = "word" /\ line = Texts.wordNum -> <<"12abc">>

\* The number a capture parses as, the way parseFloat reads text: the number
\* written at its start, and none (NaN) when it starts with no number
NumberOf(capture) ==
    CASE capture = "23.5" -> <<[mant |-> 235, exp |-> 1]>>
      [] capture = "7" -> <<[mant |-> 7, exp |-> 0]>>
      [] capture = "40" -> <<[mant |-> 40, exp |-> 0]>>
      [] capture = "1.5" -> <<[mant |-> 15, exp |-> 1]>>
      [] capture = "2" -> <<[mant |-> 2, exp |-> 0]>>
      [] capture = "1.2.3" -> <<[mant |-> 12, exp |-> 1]>>
      [] capture = "12abc" -> <<[mant |-> 12, exp |-> 0]>>
      [] capture = "." -> <<>>
      [] capture = "abc" -> <<>>

\* The declared fields of sensor that have a capture among captures that
\* parses as a number, in declared order, each with its number
RECURSIVE NumericFields(_, _)
NumericFields(fields, captures) ==
    IF fields = <<>> THEN <<>>
    ELSE (IF /\ Head(fields).captureGroup \in 1..Len(captures)
             /\ NumberOf(captures[Head(fields).captureGroup]) # <<>>
          THEN <<[name |-> Head(fields).name,
                  value |-> NumberOf(captures[Head(fields).captureGroup])[1]]>>
          ELSE <<>>)
         \o NumericFields(Tail(fields), captures)

\* C29: for a key-value or csv mapping parseSensorLine returns none when the
\* pattern does not match the line; when it matches, the readings are the
\* declared fields whose capture group exists and parses as a number (as
\* parseFloat parses: the number the capture starts with), in declared order,
\* each with that number, and none is returned when no field is left; and the
\* pattern temp=([\d.]+) with field temp on group 1 yields for the line
\* temp=23.5 the single reading temp = 23.5.
C29_NumericCapturesOnly ==
    (parserCall # <<>> /\ parserCall[1].fn = "parseSensorLine"
        /\ parserCall[1].sensor.format \in {"key-value", "csv"}) =>
        LET c == parserCall[1] IN
        /\ IF c.line \notin MatchingTexts(c.sensor.id) THEN c.result = <<>>
           ELSE LET readings == NumericFields(c.sensor.fields, CapturesOn(c.sensor.id, c.line))
                IN IF readings = <<>> THEN c.result = <<>>
                   ELSE /\ c.result # <<>>
                        /\ c.result[1].sensorId = c.sensor.id
                        /\ c.result[1].fields = readings
        /\ (c.sensor = Mapping.temp /\ c.line = Texts.temp) =>
               /\ c.result # <<>>
               /\ c.result[1].fields = <<[name |-> "temp", value |-> [mant |-> 235, exp |-> 1]]>>

\* The csv mapping declares three fields and its pattern has two groups: the
\* line 1.5,2 yields the first two fields, the third is dropped
C29_Witness ==
    /\ parserCall # <<>>
    /\ parserCall[1].fn = "parseSensorLine"
    /\ parserCall[1].sensor = Mapping.csv
    /\ parserCall[1].line = Texts.csv
    /\ parserCall[1].result # <<>>
    /\ Len(parserCall[1].result[1].fields) = 2
    /\ Len(parserCall[1].sensor.fields) = 3

\* The lines that are JSON texts
JsonTexts ==
    {Texts.json, Texts.jsonLabel, Texts.jsonIndex, Texts.jsonTwice, Texts.jsonEmpty,
     Texts.jsonNumber, Texts.jsonNull}

\* The top-level keys of the value a JSON text stands for, in the order the
\* object has them (a key written twice has its last value, at its first
\* place; a key that is an array index comes before the others), each with
\* its number when its value is a number; a number and null have no keys
KeysOf(line) ==
    CASE line = Texts.json ->
            <<[key |-> <<"t">>, number |-> <<[mant |-> 21, exp |-> 0]>>],
              [key |-> <<"l", "a", "b", "e", "l">>, number |-> <<>>]>>
      [] line = Texts.jsonLabel -> <<[key |-> <<"l", "a", "b", "e", "l">>, number |-> <<>>]>>
      [] line = Texts.jsonIndex ->
            <<[key |-> <<"2">>, number |-> <<[mant |-> 25, exp |-> 1]>>],
              [key |-> <<"b">>, number |-> <<[mant |-> 1, exp |-> 0]>>]>>
      [] line = Texts.jsonTwice ->
            <<[key |-> <<"a">>, number |-> <<[mant |-> 35, exp |-> 1]>>],
              [key |-> <<"b">>, number |-> <<[mant |-> 2, exp |-> 0]>>]>>
      [] line \in {Texts.jsonEmpty, Texts.jsonNumber, Texts.jsonNull} -> <<>>

RECURSIVE NumericKeys(_)
NumericKeys(keys) ==
    IF keys = <<>> THEN <<>>
    ELSE (IF Head(keys).number # <<>>
          THEN <<[name |-> Head(keys).key, value |-> Head(keys).number[1]]>>
          ELSE <<>>)
         \o NumericKeys(Tail(keys))

\* C30: for a json mapping parseSensorLine returns none when the line is not
\* a JSON text; otherwise its fields are exactly the top-level keys whose
\* value is a number, in the object's key order, each with that number, and
\* none is returned when there is no such key; and the line
\* {"t":21.0,"label":"ok"} yields the single field t = 21.0.
C30_JsonNumericKeys ==
    (parserCall # <<>> /\ parserCall[1].fn = "parseSensorLine"
        /\ parserCall[1].sensor.format = "json") =>
        LET c == parserCall[1] IN
        /\ IF c.line \notin JsonTexts \/ NumericKeys(KeysOf(c.line)) = <<>>
           THEN c.result = <<>>
           ELSE /\ c.result # <<>>
                /\ c.result[1].sensorId = c.sensor.id
                /\ c.result[1].fields = NumericKeys(KeysOf(c.line))
        /\ c.line = Texts.json =>
               /\ c.result # <<>>
               /\ c.result[1].fields = <<[name |-> <<"t">>, value |-> [mant |-> 21, exp |-> 0]]>>

\* The json mapping has parsed {"t":21.0,"label":"ok"}: one field, t
C30_Witness ==
    /\ parserCall # <<>>
    /\ parserCall[1].fn = "parseSensorLine"
    /\ parserCall[1].sensor = Mapping.json
    /\ parserCall[1].line = Texts.json
    /\ parserCall[1].result # <<>>
    /\ Len(parserCall[1].result[1].fields) = 1
    /\ parserCall[1].result[1].fields[1].name = <<"t">>

\* The readings of lines from..Len(lines), each parsed against sensor, in order
RECURSIVE ReadingsFrom(_, _, _)
ReadingsFrom(lines, from, sensor) ==
    IF from > Len(lines) THEN <<>>
    ELSE parseSensorLine(lines[from], sensor) \o ReadingsFrom(lines, from + 1, sensor)

\* C28: parseTelemetryData handed a mapping returns that mapping, and its
\* output is every line parsed against it; handed none, it returns the mapping
\* that detection gives for the first line some mapping matches, its output
\* is that line and every later line parsed against that mapping and nothing
\* else, and when no line is matched it returns no mapping and no output.
C28_DetectOncePerFrame ==
    (parserCall # <<>> /\ parserCall[1].fn = "parseTelemetryData") =>
        LET c == parserCall[1]
            hits == {i \in 1..Len(c.lines) : c.lines[i].matches # {}}
        IN IF c.previousSensor # <<>>
           THEN /\ c.result.detectedSensor = c.previousSensor
                /\ c.result.parsed = ReadingsFrom(c.lines, 1, c.previousSensor[1])
           ELSE IF hits = {}
           THEN c.result.detectedSensor = <<>> /\ c.result.parsed = <<>>
           ELSE LET first == CHOOSE i \in hits : \A j \in hits : i <= j IN
                /\ c.result.detectedSensor = detectSensorType(c.lines[first])
                /\ c.result.parsed = ReadingsFrom(c.lines, first, c.result.detectedSensor[1])

\* No mapping was handed in; the frame is a line nothing matches, a climate
\* line and a power line: the output is the climate line's readings alone
C28_Witness ==
    /\ parserCall # <<>>
    /\ parserCall[1].fn = "parseTelemetryData"
    /\ parserCall[1].previousSensor = <<>>
    /\ Len(parserCall[1].lines) = 3
    /\ parserCall[1].lines[1].matches = {}
    /\ parserCall[1].lines[2].matches = {"s1"}
    /\ parserCall[1].lines[3].matches = {"s2"}
    /\ Len(parserCall[1].result.parsed) = 1
    /\ parserCall[1].result.parsed[1].sensorId = "s1"

----------------------------------------------------------------------------
(* Chart view properties *)

Occurrences(seq, x) == Cardinality({i \in 1..Len(seq) : seq[i] = x})

\* C9: a merging drop and a separation leave the Telemetry Store as it was;
\* when a merged chart is separated (it is gone and nothing was merged in that
\* step) its id is in the chart order no more, and every device that was a
\* source of it is shown exactly as a page without merges would show it:
\* drawn once, as its own chart with its own series, when it has a chart.
C9_MergeThenSeparate ==
    [][/\ (mergeClock' # mergeClock \/ Len(mergedCharts') < Len(mergedCharts))
           => (devices' = devices /\ detectedSensors' = detectedSensors)
       /\ \A n \in 1..Len(mergedCharts) :
             (mergeClock' = mergeClock /\ \A i \in 1..Len(mergedCharts') :
                                            mergedCharts'[i].id # mergedCharts[n].id) =>
             LET chart == mergedCharts[n]
                 shown == allCharts(activeSubscriptions', devices', mergedCharts', timeWindow', customTimeRange', now')
                 alone == devicesWithCharts(activeSubscriptions', devices', timeWindow', customTimeRange', now')
                 drawn == Rendered(chartOrder', shown)
             IN /\ Occurrences(chartOrder', chart.id) = 0
                /\ \A i \in 1..Len(chart.sources) :
                      LET key == <<chart.sources[i].hubId, chart.sources[i].portId>> IN
                      /\ Get(shown, key) = Get(alone, key)
                      /\ Occurrences(drawn, key) = (IF Get(alone, key) # <<>> THEN 1 ELSE 0)]_vars

\* A merged chart has been made and separated again, and two device charts are drawn
C9_Witness ==
    /\ mergeClock >= 1
    /\ mergedCharts = <<>>
    /\ Len(Rendered(chartOrder, allCharts(activeSubscriptions, devices, mergedCharts, timeWindow, customTimeRange, now))) >= 2

SourcesOf(k) ==
    {<<n, i>> \in (1..Len(mergedCharts)) \X (1..Cardinality(GroupPairs)) :
        i <= Len(mergedCharts[n].sources) /\ SourceKeys(mergedCharts[n])[i] = k}

\* C13: every device key is a source of at most one merged chart, and at most
\* once in it, and no merged chart has more sources than there are devices.
C13_SourceInOneGroup ==
    /\ \A k \in DeviceKeys : Cardinality(SourcesOf(k)) <= 1
    /\ \A n \in 1..Len(mergedCharts) : Len(mergedCharts[n].sources) <= Cardinality(GroupPairs)

\* Two merged charts were merged into one that holds all four devices
C13_Witness ==
    /\ groupsJoined
    /\ Len(mergedCharts) = 1
    /\ Len(mergedCharts[1].sources) = 4

----------------------------------------------------------------------------
(* C11: a message event whose payload parses calls every handler that is in
   the handler set at that time exactly once, with that message, whichever
   of the handlers throw; a handler that is not in the set, among them every
   handler removed by its unsubscribe function and not added again, is not
   called. *)
C11_EachHandlerOnce ==
    [][\A s \in SocketIds, raw \in Payloads, throwing \in SUBSET Range(messageHandlers) :
          (/\ raw.wellFormed /\ svc.sock[s] = "open"
           /\ inbound' # "dropped" /\ thrown' \subseteq throwing
           /\ SocketMessage(s, raw, throwing)) =>
              \A h \in Handlers :
                  calls'[h] = IF h \in Range(messageHandlers)
                              THEN <<[type |-> raw.type]>> ELSE <<>>]_vars

\* The first handler threw and the handler after it was called all the same,
\* while a handler that was unsubscribed stayed silent
C11_Witness ==
    /\ Len(messageHandlers) >= 2
    /\ messageHandlers[1] \in thrown
    /\ calls[messageHandlers[2]] # <<>>

(* C20: a payload that does not parse is dropped: no handler is called, the
   socket, the pending queue, the attempt counter and the handler set are
   what they were, and a well-formed message that follows is delivered to
   every handler in the set. *)
C20_MalformedDropped ==
    [][\A s \in SocketIds, raw \in Payloads, throwing \in SUBSET Range(messageHandlers) :
          (/\ svc.sock[s] = "open"
           /\ raw.wellFormed = (inbound' # "dropped") /\ thrown' \subseteq throwing
           /\ SocketMessage(s, raw, throwing)) =>
              /\ ~raw.wellFormed =>
                    /\ calls' = NoCalls
                    /\ svc' = svc
                    /\ messageHandlers' = messageHandlers
              /\ (raw.wellFormed /\ inbound = "dropped") =>
                    \A h \in Range(messageHandlers) : Len(calls'[h]) = 1]_vars

C20_Witness ==
    /\ inbound = "delivered after a drop"
    /\ messageHandlers # <<>>
    /\ \A h \in Range(messageHandlers) : calls[h] # <<>>

\* What the page shows, chart by chart
Shown == devicesWithCharts(activeSubscriptions, devices, timeWindow, customTimeRange, now)

\* The shown series of a chart and what the store's 1h query returns for its device
ShownAgainstHour(e) ==
    LET q == getChartData(devices, e.key[1], e.key[2], "1h", now)
        range == customTimeRange[1]
    IN /\ Len(e.chart.fields) = Len(q)
       /\ \A i \in 1..Len(q) :
             /\ e.chart.fields[i].fieldName = q[i].fieldName
             /\ e.chart.fields[i].data =
                    SelectSeq(q[i].data, LAMBDA p :
                        range.start <= p.timestamp /\ p.timestamp <= range.end)

\* C34: with the custom window selected a range is set, the store is queried
\* with 1h, and every chart shows, series by series, exactly the points of the
\* 1h query stamped from start to end, both included; the window handed to
\* the store is never the custom one.
C34_CustomRange ==
    /\ QueryWindow(timeWindow, customTimeRange) \in TimeWindows
    /\ timeWindow = "custom" =>
          /\ customTimeRange # <<>>
          /\ QueryWindow(timeWindow, customTimeRange) = "1h"
          /\ \A i \in 1..Len(Shown) : ShownAgainstHour(Shown[i])
          /\ \A i \in 1..Len(activeSubscriptions) :
                LET sub == activeSubscriptions[i] IN
                Len(getChartData(devices, sub.hubId, sub.portId, "1h", now)) > 0 =>
                    \E j \in 1..Len(Shown) : Shown[j].key = deviceKey(sub.hubId, sub.portId)

\* A custom range is shown: a series shows a point stamped exactly at the end
\* of the range and leaves out a point the 1h query returned
C34_Witness ==
    /\ timeWindow = "custom"
    /\ customTimeRange # <<>>
    /\ \E i \in 1..Len(Shown) : \E f \in 1..Len(Shown[i].chart.fields) :
          LET data == Shown[i].chart.fields[f].data
              q == getChartData(devices, Shown[i].key[1], Shown[i].key[2], "1h", now)
          IN /\ \E p \in 1..Len(data) : data[p].timestamp = customTimeRange[1].end
             /\ Len(data) < Len(q[f].data)

----------------------------------------------------------------------------
(* Session properties *)

\* C33: a device_event with event disconnected for a pair that is subscribed
\* takes that pair out of the active subscriptions, leaves the others as they
\* were and in their order, and hands an unsubscribe for the pair to the
\* service (sent on the socket when it is open, else the pair's intent leaves
\* the queue); a connected event, or a disconnected event for a pair that is
\* not subscribed, changes neither the subscriptions nor the service.
C33_DisconnectDropsSubscription ==
    [][\A event \in DeviceEvents, pair \in DevicePairs :
          DeviceEvent(event, pair) =>
              IF event = "disconnected" /\ pair \in Range(activeSubscriptions)
              THEN /\ pair \notin Range(activeSubscriptions')
                   /\ activeSubscriptions' = SelectSeq(activeSubscriptions, LAMBDA s : s # pair)
                   /\ IF IsOpen(svc)
                      THEN svc'.sent = <<[sock |-> svc.ws, type |-> "unsubscribe",
                                          subscriptions |-> <<pair>>]>>
                      ELSE /\ svc'.sent = <<>>
                           /\ pair \notin Range(svc'.pendingSubscriptions)
              ELSE /\ activeSubscriptions' = activeSubscriptions
                   /\ svc'.sent = <<>>
                   /\ svc'.pendingSubscriptions = svc.pendingSubscriptions]_vars

\* A disconnected event took one of two subscriptions out: the unsubscribe for
\* its pair was the last thing sent, the pair is gone and the other one stays
C33_Witness ==
    /\ lastEvent # <<>>
    /\ lastEvent[1].event = "disconnected"
    /\ Len(svc.sent) = 1
    /\ svc.sent[1].type = "unsubscribe"
    /\ svc.sent[1].subscriptions = <<[hubId |-> lastEvent[1].hubId, portId |-> lastEvent[1].portId]>>
    /\ Len(activeSubscriptions) = 1
    /\ svc.sent[1].subscriptions[1] \notin Range(activeSubscriptions)

\* C39: when a socket opens after a retry was scheduled, every pair of the
\* active subscriptions is in a subscribe message sent on it or in the
\* pending queue.
C39_ResubscribedAfterReconnect ==
    [][\A s \in SocketIds :
          (svc.sock[s] = "connecting" /\ svc'.sock[s] = "open" /\ retry.n > 0) =>
              \A p \in Range(activeSubscriptions') :
                  p \in SubscribedNow \/ p \in Range(svc'.pendingSubscriptions)]_vars

====
